---- MODULE Spec2Model ----
(***************************************************************************)
(* A model of the AudioEngine of src/utils/audioEngine.ts: the voice       *)
(* manager (triggerNote, killVoice, the oscillators' ended events), the    *)
(* trigger API (playKey, playError, playMetronomeTick), the parameter API  *)
(* and the asynchronous start() / initAudioChain().                        *)
(*                                                                         *)
(* Units: times are integer milliseconds of the engine clock               *)
(* (ctx.currentTime), gains are millionths (1000000 = 1.0), frequencies    *)
(* are millihertz, velocities are tenths, sustain is in thousandths.       *)
(***************************************************************************)
EXTENDS Integers, Sequences, FiniteSets, TLC

VARIABLES
    now,                \* ctx.currentTime
    ctx,                \* this.ctx: "null", or the context's state
    chain,              \* which nodes of the output graph exist / are routed
    mix,                \* last targets scheduled on dry / wet / delaySend gains
    starts,             \* the start() invocations in flight, each at its await
    heap,               \* the SoundProfile objects (engine default and caller's)
    currentProfile,     \* this.currentProfile: a reference into heap
    currentScale,       \* this.currentScale
    isHarmonizerActive, \* this.isHarmonizerActive
    adrenalineLevel,    \* this.adrenalineLevel, in thousandths
    curveCache,         \* this.curveCache and the number of curves allocated
    voices,             \* node groups not yet ended, in insertion order
    created,            \* number of voices created so far (next id - 1)
    mic,                \* the microphone path: micNode, connected sources, pending
    recorder,           \* this.mediaRecorder, this.recordedChunks, stop events queued
    steals,             \* history: the forced steals, in order
    last,               \* history: the last API operation and what it scheduled
    tally               \* history: counters of calls and constructions

vars == <<now, ctx, chain, mix, starts, heap, currentProfile, currentScale,
          isHarmonizerActive, adrenalineLevel, curveCache, voices, created, mic,
          recorder, steals, last, tally>>

----------------------------------------------------------------------------
(* Program constants *)

MAX_POLYPHONY == 30

\* the lookahead added in triggerNote and playMetronomeTick (0.04 s)
SafetyMargin == 40

\* playKey's harmonizer offset (0.08 s) and playError's second-tone offset
HarmonizerDelay == 80

ErrorDelay == 50

\* fade durations handed to killVoice (0.04 s self-steal, 0.1 s capacity steal)
SelfStealFade == 40

CapacityFade == 100

\* killVoice stops the oscillators fadeDuration + 0.05 s after the steal time
KillStopPad == 50

\* triggerNote stops the oscillators 0.2 s after releaseEnd
StopPad == 200

\* Math.max(0.01, p.attack)
MinAttack == 10

\* time constant of the final setTargetAtTime(0, releaseEnd, 0.05)
SilenceTC == 50

\* exponentialRampToValueAtTime(0.001, releaseEnd), and the floor of sustainGain
GainFloor == 1000

\* a GainNode's gain before any automation event applies (AudioParam default 1.0)
DefaultGain == 1000000

\* the self-steal window: Math.abs(v.freq - freq) < 1.0 (Hz)
SameNoteWindow == 1000

----------------------------------------------------------------------------
(* Bounds of the model *)

\* ctx.currentTime may advance by one render quantum between two reads
\* made in the same handler (128 frames at 44100 Hz, about 3 ms)
RenderQuantum == 3

\* the clock of an engine without voices is stepped up to MaxTime
MaxTime == 10

\* number of trigger calls (playKey / playError / playMetronomeTick) per run
MaxCalls == 2

\* number of start() invocations per run
MaxStarts == 2

\* number of parameter calls (setProfile, updateParam, setScale, setHarmonizer)
MaxParams == 1

\* number of platform failures (a constructor or a node factory that throws,
\* a resume or a device request that is refused) per run
MaxFaults == 1

\* number of enableMicrophone calls per run
MaxMicCalls == 3

\* number of startRecording / stopRecording calls per run
MaxRecCalls == 4

\* burst specification: the number of pitches triggered one after the other
BurstVoices == 35

\* burst specification: how many steps of a run may be something else than the
\* plain trigger of the next pitch (a delayed trigger, a re-trigger, a clock
\* step, an ended event), and within how many pitches of the start of the run
\* or of the polyphony limit such a step is taken
BurstVariations == 2

BurstEdge == 2

BurstTickStep == 200

\* key specification: the number of keys typed one after the other
MaxKeys == 30

----------------------------------------------------------------------------
(* Helpers *)

Abs(x) == IF x < 0 THEN -x ELSE x

Max(a, b) == IF a >= b THEN a ELSE b

Min(a, b) == IF a <= b THEN a ELSE b

RECURSIVE Pow2(_)
Pow2(k) == IF k <= 0 THEN 1 ELSE 2 * Pow2(k - 1)

\* v0 * exp(-dt / tc), the value a setTargetAtTime(0, T, tc) reaches dt after T:
\* whole half-lives (tc * ln 2 = tc * 0.693) exactly, the remaining fraction of
\* a half-life by linear interpolation between 1 and 1/2.
ExpDecay(v0, dt, tc) ==
    IF dt <= 0 THEN v0
    ELSE LET hl   == tc * 693
             k    == (dt * 1000) \div hl
             rem  == dt * 1000 - k * hl
             frac == (rem * 1000) \div hl
         IN  IF k >= 20 THEN 0
             ELSE ((v0 \div Pow2(k)) * (2000 - frac)) \div 2000

----------------------------------------------------------------------------
(* ScaleMapper: the mapping inside playKey *)

Scales == {"pentatonic", "major", "minor", "blues", "chromatic"}

scaleIntervals(s) ==
    CASE s = "pentatonic" -> <<0, 2, 4, 7, 9>>
      [] s = "major"      -> <<0, 2, 4, 5, 7, 9, 11>>
      [] s = "minor"      -> <<0, 2, 3, 5, 7, 8, 10>>
      [] s = "blues"      -> <<0, 3, 5, 6, 7, 10>>
      [] s = "chromatic"  -> <<0, 1, 2, 3, 4, 5, 6, 7, 8, 9, 10, 11>>

\* rootFreq * 2^(n/12) in millihertz for n = 0, 1, ... semitones above C3
\* (rootFreq = 130.81 Hz), rounded to the nearest millihertz
SemitoneFreq ==
    <<130810, 138588, 146829, 155560, 164810, 174610, 184993, 195994, 207648,
      219995, 233077, 246936, 261620, 277177, 293659, 311120, 329621, 349221,
      369987, 391987, 415296, 439991, 466154, 493873, 523240, 554353, 587317,
      622241, 659241, 698442, 739973, 783974, 830592, 879981, 932308, 987746>>

\* the frequency of a trigger whose char is the empty string: charCodeAt(0)
\* is NaN, and so is every value computed from it
NaNFreq == -1

FilterCeiling == 12000

NoteIndexThreeOctaves(charCode, s) == charCode % (Len(scaleIntervals(s)) * 3)

\* charCode -1 stands for NaN (the empty string)
NoteIndex(charCode, s) == charCode % (Len(scaleIntervals(s)) * 2)

OctaveFlat(charCode, s) == 3

Octave(charCode, s) == (NoteIndex(charCode, s) \div Len(scaleIntervals(s))) + 3

Interval(charCode, s) ==
    scaleIntervals(s)[(NoteIndex(charCode, s) % Len(scaleIntervals(s))) + 1]

KeyFreq(charCode, s) ==
    IF charCode < 0 THEN NaNFreq
    ELSE SemitoneFreq[Interval(charCode, s) + 12 * (Octave(charCode, s) - 3) + 1]

KeyPanUnclamped(charCode, s) ==
    ((NoteIndex(charCode, s) - Len(scaleIntervals(s))) * 1000) \div Len(scaleIntervals(s))

\* pan in thousandths: clamp(-0.8, 0.8, (noteIndex - L) / L)
KeyPan(charCode, s) ==
    IF charCode < 0 THEN 0
    ELSE LET L == Len(scaleIntervals(s))
         IN  Max(-800, Min(800, ((NoteIndex(charCode, s) - L) * 1000) \div L))

\* freq * 1.5
HarmonizerFreq(f) == IF f = NaNFreq THEN NaNFreq ELSE (3 * f) \div 2

----------------------------------------------------------------------------
(* SoundProfile objects *)

\* the engine's initial currentProfile
DefaultProfile ==
    [oscillatorType |-> "sine", attack |-> 50, decay |-> 200, sustain |-> 200,
     release |-> 1500, filterFreq |-> 1200, distortion |-> 0, reverbMix |-> 40]

\* getStyleProfile('Glitch Hop'), the object a caller hands to setProfile
CallerProfile ==
    [oscillatorType |-> "sawtooth", attack |-> 10, decay |-> 150, sustain |-> 100,
     release |-> 200, filterFreq |-> 5000, distortion |-> 30, reverbMix |-> 20]

\* heap addresses: the engine's own object and the caller's object
EngineObj == 0

CallerObj == 1

\* typeVolume in thousandths
TypeVolume(type) ==
    CASE type = "square"   -> 350
      [] type = "sawtooth" -> 300
      [] OTHER             -> 1000

\* velocity * 0.5 * typeVolume
PeakGain(vel, type) == vel * 50 * TypeVolume(type)

\* Math.max(0.001, p.sustain * peakGain)
SustainGain(vel, p) == Max(GainFloor, (p.sustain * PeakGain(vel, p.oscillatorType)) \div 1000)

AttackTimeRaw(p) == p.attack

\* attackTime = Math.max(0.01, p.attack)
AttackTime(p) == Max(MinAttack, p.attack)

----------------------------------------------------------------------------
(* Voices and their gain automation timelines *)

Event(kind, value, time, tc) == [kind |-> kind, value |-> value, time |-> time, tc |-> tc]

TriggerTimeNoMargin(clk, delay) == Max(clk, clk + delay)

\* the start time of a trigger: Math.max(now, now + delay + 0.04)
TriggerTime(clk, delay) == Max(clk, clk + delay + SafetyMargin)

EnvelopeNoRelease(t, vel, p) ==
    << Event("set", 0, t, 0),
       Event("lin", PeakGain(vel, p.oscillatorType), t + AttackTime(p), 0),
       Event("exp", SustainGain(vel, p), t + AttackTime(p) + p.decay, 0) >>

\* the amplitude envelope of triggerNote, section 9
Envelope(t, vel, p) ==
    LET attackEnd    == t + AttackTime(p)
        releaseStart == attackEnd + p.decay
        releaseEnd   == releaseStart + p.release
    IN  << Event("set", 0, t, 0),
           Event("lin", PeakGain(vel, p.oscillatorType), attackEnd, 0),
           Event("exp", SustainGain(vel, p), attackEnd + p.decay, 0),
           Event("set", SustainGain(vel, p), releaseStart, 0),
           Event("exp", GainFloor, releaseEnd, 0),
           Event("target", 0, releaseEnd, SilenceTC) >>

\* the filter's base cutoff in Hz:
\* Math.min(12000, p.filterFreq + (this.adrenalineLevel * 500))
BaseFreq(p) == Min(FilterCeiling, p.filterFreq + (adrenalineLevel * 500) \div 1000)

\* the voice object of triggerNote, with the times it handed to the nodes;
\* env keeps the envelope as it was scheduled at creation
NewVoice(id, freq, vel, pan, t, p) ==
    LET attackEnd    == t + AttackTime(p)
        releaseStart == attackEnd + p.decay
        releaseEnd   == releaseStart + p.release
    IN  [id |-> id, freq |-> freq, vel |-> vel, pan |-> pan, start |-> t,
         attackEnd |-> attackEnd, releaseStart |-> releaseStart,
         releaseEnd |-> releaseEnd, stop |-> releaseEnd + StopPad,
         gain |-> Envelope(t, vel, p), filterBase |-> BaseFreq(p),
         inSet |-> TRUE, killT |-> -1, fade |-> 0, killedBy |-> 0,
         env |-> Envelope(t, vel, p)]

\* AudioParam.cancelScheduledValues(t): every event with time >= t is removed
CancelScheduledValues(evs, t) == SelectSeq(evs, LAMBDA e : e.time < t)

KilledNotDeleted(v, clk, t, fadeDuration, by) ==
    [v EXCEPT !.gain = Append(CancelScheduledValues(v.gain, t),
                              Event("target", 0, t, (fadeDuration * 3) \div 10)),
              !.stop = IF clk < v.stop THEN t + fadeDuration + KillStopPad ELSE v.stop,
              !.killT = t, !.fade = fadeDuration, !.killedBy = by]

\* killVoice's effect on the stolen voice.  clk is the clock reading of the
\* trigger that steals: osc.stop() on an oscillator that has already stopped
\* has no effect, otherwise the last stop() call replaces the earlier one.
Killed(v, clk, t, fadeDuration, by) ==
    [v EXCEPT !.gain = Append(CancelScheduledValues(v.gain, t),
                              Event("target", 0, t, (fadeDuration * 3) \div 10)),
              !.stop = IF clk < v.stop THEN t + fadeDuration + KillStopPad ELSE v.stop,
              !.inSet = FALSE, !.killT = t, !.fade = fadeDuration, !.killedBy = by]

KillVoice(vs, i, clk, t, fadeDuration, by) ==
    [vs EXCEPT ![i] = Killed(vs[i], clk, t, fadeDuration, by)]

ActiveVoices(vs) == {i \in 1..Len(vs) : vs[i].inSet}

SameNoteExact(v, freq) == freq # NaNFreq /\ v.freq = freq

\* step 1 of triggerNote: every active voice within 1 Hz of freq is killed
SameNote(v, freq) == freq # NaNFreq /\ Abs(v.freq - freq) < SameNoteWindow

SelfStealNone(vs, freq, clk, t, by) == vs

SelfSteal(vs, freq, clk, t, by) ==
    [i \in 1..Len(vs) |->
        IF vs[i].inSet /\ SameNote(vs[i], freq)
        THEN Killed(vs[i], clk, t, SelfStealFade, by) ELSE vs[i]]

RECURSIVE OldestFromLastTie(_, _, _)
OldestFromLastTie(vs, i, best) ==
    IF i > Len(vs) THEN best
    ELSE OldestFromLastTie(vs, i + 1,
            IF vs[i].inSet /\ (best = 0 \/ vs[i].start <= vs[best].start)
            THEN i ELSE best)

\* step 2 of triggerNote: the loop that picks the oldest voice.  best = 0 until
\* iter.next() has delivered the first active voice.
RECURSIVE OldestFrom(_, _, _)
OldestFrom(vs, i, best) ==
    IF i > Len(vs) THEN best
    ELSE OldestFrom(vs, i + 1,
            IF vs[i].inSet /\ (best = 0 \/ vs[i].start < vs[best].start)
            THEN i ELSE best)

RECURSIVE NewestFrom(_, _, _)
NewestFrom(vs, i, best) ==
    IF i > Len(vs) THEN best
    ELSE NewestFrom(vs, i + 1,
            IF vs[i].inSet /\ (best = 0 \/ vs[i].start > vs[best].start)
            THEN i ELSE best)

Newest(vs) == NewestFrom(vs, 1, 0)

Oldest(vs) == OldestFrom(vs, 1, 0)

NeedsSlotStrict(vs) == Cardinality(ActiveVoices(vs)) > MAX_POLYPHONY

NeedsSlot(vs) == Cardinality(ActiveVoices(vs)) >= MAX_POLYPHONY

CapacitySteal(vs, clk, t, by) ==
    IF NeedsSlot(vs) /\ Oldest(vs) # 0
    THEN KillVoice(vs, Oldest(vs), clk, t, CapacityFade, by)
    ELSE vs

\* the voices a trigger stole: in the set before, out of it after
StolenBy(before, after) ==
    {i \in 1..Len(before) : before[i].inSet /\ ~after[i].inSet}

RECURSIVE StealLog(_, _, _)
StealLog(after, i, S) ==
    IF i > Len(after) THEN << >>
    ELSE IF i \in S
         THEN <<[id |-> after[i].id, fade |-> after[i].fade]>> \o StealLog(after, i + 1, S)
         ELSE StealLog(after, i + 1, S)

\* the scheduling times triggerNote hands to the audio graph, as offsets from
\* the clock reading clk it took
KillSched(after, S, clk) ==
    UNION {{<<"steal.cancel", after[i].killT - clk>>,
            <<"steal.fade", after[i].killT - clk>>,
            <<"steal.stop", after[i].killT + after[i].fade + KillStopPad - clk>>} : i \in S}

VoiceSched(v, p, clk) ==
    {<<"osc.frequency", v.start - clk>>, <<"osc.detune", v.start - clk>>,
     <<"filter.frequency", v.start - clk>>, <<"filter.Q", v.start - clk>>,
     <<"filter.rampUp", v.start + p.attack - clk>>,
     <<"filter.settle", v.start + p.attack + p.decay + p.release - clk>>,
     <<"osc.start", v.start - clk>>, <<"osc.stop", v.stop - clk>>}
    \cup {<<"gain." \o v.gain[k].kind, v.gain[k].time - clk>> : k \in 1..Len(v.gain)}

\* this.curveCache: the cached curves [key, obj, k] and the number of
\* Float32Array objects allocated so far (obj is the allocation number)
NoCurves == [curves |-> {}, allocated |-> 0]

CacheKeyExact(amount) == amount

\* Math.round(amount * 100), amount in thousandths
CacheKey(amount) == (amount + 5) \div 10

\* the contents of a curve: new Float32Array(2), two samples that are 0, or
\* the 44100 samples computed from k
ZeroCurve == [samples |-> 2, k |-> 0]

ComputedCurve(amount) == [samples |-> 44100, k |-> amount]

\* the output of a wave shaper with curve c for the input x, both in
\* thousandths: 0 for the two zero samples, otherwise the curve's formula
\* (3 + k) * x * 20 * deg / (PI + k * |x|), k in thousandths
Shaped(c, x) ==
    IF c.samples = 2 THEN 0
    ELSE LET a == ((3000 + c.k) * Abs(x) * 349) \div (3141593 + c.k * Abs(x))
         IN  IF x < 0 THEN -a ELSE a

\* makeDistortionCurve(amount): [cache, obj, computed, curve]
MakeDistortionCurve(cache, amount) ==
    LET fresh == cache.allocated + 1
        hits  == {e \in cache.curves : e.key = CacheKey(amount)}
    IN  IF amount = 0
        THEN [cache |-> [cache EXCEPT !.allocated = fresh], obj |-> fresh,
              computed |-> FALSE, curve |-> ZeroCurve]
        ELSE IF hits # {}
             THEN [cache |-> cache, obj |-> (CHOOSE e \in hits : TRUE).obj,
                   computed |-> FALSE,
                   curve |-> ComputedCurve((CHOOSE e \in hits : TRUE).k)]
             ELSE [cache |-> [curves |-> cache.curves \cup
                                  {[key |-> CacheKey(amount), obj |-> fresh, k |-> amount]},
                              allocated |-> fresh],
                   obj |-> fresh, computed |-> TRUE, curve |-> ComputedCurve(amount)]

\* step 6 of triggerNote: distortion.curve = makeDistortionCurve(p.distortion * 50)
\* when p.distortion > 0 (p.distortion in percent, the amount in thousandths)
CurveFor(cache, p) ==
    IF p.distortion > 0 THEN MakeDistortionCurve(cache, p.distortion * 500).cache
    ELSE cache

\* triggerNote(freq, velocity, pan, delay) on the voice manager state
\* m = [voices, created, steals, sched, direct, threw], at clock reading clk.
\* ok = FALSE: node creation or configuration throws (steps 3 and 4), which
\* is after the stealing steps and before the insertion; the voices it stole
\* then have no stealer (killedBy = 0).
TriggerNote(m, ready, p, freq, vel, pan, delay, clk, ok) ==
    IF ~ready \/ m.threw THEN m
    ELSE LET t      == TriggerTime(clk, delay)
             id     == m.created + 1
             failed == ~ok \/ freq = NaNFreq
             by     == IF failed THEN 0 ELSE id
             vs1    == SelfSteal(m.voices, freq, clk, t, by)
             vs2    == CapacitySteal(vs1, clk, t, by)
             S      == StolenBy(m.voices, vs2)
             v      == NewVoice(id, freq, vel, pan, t, p)
         IN  [voices  |-> IF failed THEN vs2 ELSE Append(vs2, v),
              created |-> IF failed THEN m.created ELSE id,
              steals  |-> m.steals \o StealLog(vs2, 1, S),
              sched   |-> m.sched \cup KillSched(vs2, S, clk)
                          \cup (IF failed THEN {} ELSE VoiceSched(v, p, clk)),
              direct  |-> m.direct \cup (IF failed THEN {} ELSE {"panner.pan"}),
              cache   |-> IF failed THEN m.cache ELSE CurveFor(m.cache, p),
              threw   |-> failed]

\* the value of a gain timeline at a time that is not inside a ramp, after
\* its first k events
RECURSIVE ValueAt(_, _, _)
ValueAt(evs, k, time) ==
    IF k = 0 THEN DefaultGain
    ELSE IF evs[k].kind = "target"
         THEN ExpDecay(ValueAt(evs, k - 1, evs[k].time), time - evs[k].time, evs[k].tc)
         ELSE evs[k].value

\* the value of an envelope as scheduled by triggerNote at a time: the
\* AudioParam default before the first event, the linear ramp of the attack,
\* the held value between a ramp's end and the next event, the final decay
\* after releaseEnd.  Inside an exponential ramp the value returned is that of
\* the straight line between the ramp's end points, which the falling
\* exponential never exceeds.
EnvelopeAt(evs, time) ==
    LET k == Cardinality({j \in 1..Len(evs) : evs[j].time <= time})
    IN  IF k = 0 THEN DefaultGain
        ELSE IF k = Len(evs) THEN ValueAt(evs, k, time)
        ELSE IF evs[k + 1].kind \in {"lin", "exp"}
             THEN LET v0 == evs[k].value
                      v1 == evs[k + 1].value
                      dt == time - evs[k].time
                      span == evs[k + 1].time - evs[k].time
                  IN  IF v1 >= v0 THEN v0 + ((v1 - v0) * dt) \div span
                      ELSE v0 - ((v0 - v1) * dt) \div span
             ELSE evs[k].value

\* the value the forced decay of a stolen voice starts from: what the gain
\* holds at the steal time once cancelScheduledValues has removed the events
\* at or after it, ramps in progress included
FadeStart(v) == ValueAt(v.gain, Len(v.gain) - 1, v.killT)

GainAtReleaseEnd(v) ==
    ValueAt(v.gain, Cardinality({k \in 1..Len(v.gain) : v.gain[k].time <= v.releaseEnd}),
            v.releaseEnd)

----------------------------------------------------------------------------
(* The output graph: start(), initAudioChain(), updateMix() *)

NoChain ==
    [destNode |-> FALSE, compressor |-> FALSE, masterGain |-> FALSE,
     mixNodes |-> FALSE, reverbNode |-> FALSE, delayNode |-> FALSE, routed |-> FALSE]

FullChain ==
    [destNode |-> TRUE, compressor |-> TRUE, masterGain |-> TRUE,
     mixNodes |-> TRUE, reverbNode |-> TRUE, delayNode |-> TRUE, routed |-> TRUE]

MixTargetsNoCap(p) ==
    [dry |-> 1000 - (p.reverbMix * 10) \div 2, wet |-> p.reverbMix * 10,
     delaySend |-> (p.reverbMix * 10 * 4) \div 10]

\* the three targets updateMix schedules, in thousandths:
\* reverbAmount = min(0.8, reverbMix), delayAmount = reverbAmount * 0.4
MixTargets(p) ==
    LET reverbAmount == Min(800, p.reverbMix * 10)
    IN  [dry |-> 1000 - reverbAmount \div 2, wet |-> reverbAmount,
         delaySend |-> (reverbAmount * 4) \div 10]

NoMix == [dry |-> -1, wet |-> -1, delaySend |-> -1]

\* updateMix(): returns without scheduling unless the three gains and ctx exist
UpdateMixRuns(c, ch) == c # "null" /\ ch.mixNodes

UpdateMixOnce(c, ch, p, m) ==
    IF UpdateMixRuns(c, ch) /\ m = NoMix THEN MixTargets(p) ELSE m

UpdateMix(c, ch, p, m) == IF UpdateMixRuns(c, ch) THEN MixTargets(p) ELSE m

\* updateMix schedules at t = ctx.currentTime
MixSched(c, ch) ==
    IF UpdateMixRuns(c, ch)
    THEN {<<"mix.dry", 0>>, <<"mix.wet", 0>>, <<"mix.delaySend", 0>>} ELSE {}

\* initAudioChain() up to its await of setupReverb().  failAt names the call
\* that throws: "dest" (createMediaStreamDestination, nothing built yet),
\* "reverb" (inside setupReverb, after the gains were created) or "none".
InitSync(ch, failAt) ==
    CASE failAt = "dest"   -> ch
      [] failAt = "reverb" -> [ch EXCEPT !.destNode = TRUE, !.compressor = TRUE,
                                         !.masterGain = TRUE, !.mixNodes = TRUE]
      [] OTHER             -> [ch EXCEPT !.destNode = TRUE, !.compressor = TRUE,
                                         !.masterGain = TRUE, !.mixNodes = TRUE,
                                         !.reverbNode = TRUE]

InitSyncSched(failAt) ==
    IF failAt = "dest" THEN {}
    ELSE {<<"compressor.threshold", 0>>, <<"compressor.knee", 0>>,
          <<"compressor.ratio", 0>>, <<"compressor.attack", 0>>,
          <<"compressor.release", 0>>}

InitSyncDirect(failAt) == IF failAt = "dest" THEN {} ELSE {"masterGain.gain"}

\* the rest of initAudioChain(): setupDelay(), the routing, updateMix()
InitRest(ch, failAt) ==
    IF failAt = "delay" THEN ch
    ELSE [ch EXCEPT !.delayNode = TRUE,
                    !.routed = ch.masterGain /\ ch.mixNodes /\ ch.reverbNode
                               /\ ch.compressor /\ ch.destNode]

StartRec(pc, then) == [pc |-> pc, then |-> then]

StartBuildsAlways(c) == TRUE

\* whether start() constructs the context: if (!this.ctx)
StartBuilds(c) == c = "null"

\* start() up to its first await, on engine state e = [ctx, chain, starts,
\* tally, sched, direct].  ctorOk: the AudioContext constructor returns;
\* state0: the state the new context is in; failAt: see InitSync; then: what
\* the caller does when the promise settles.
StartSync(e, ctorOk, state0, failAt, then) ==
    LET t1 == [e.tally EXCEPT !.startCalls = @ + 1]
    IN  IF StartBuilds(e.ctx)
        THEN IF ~ctorOk
             THEN [e EXCEPT !.tally = [t1 EXCEPT !.rejected = @ + 1]]
             ELSE [e EXCEPT
                     !.ctx = state0,
                     !.chain = InitSync(e.chain, failAt),
                     !.sched = @ \cup InitSyncSched(failAt),
                     !.direct = @ \cup InitSyncDirect(failAt),
                     !.starts = IF failAt = "none"
                                THEN Append(@, StartRec("init", then)) ELSE @,
                     !.tally = [t1 EXCEPT !.ctxBuilt = @ + 1, !.chainInits = @ + 1,
                                          !.rejected = IF failAt = "none" THEN @ ELSE @ + 1]]
        ELSE IF e.ctx = "suspended"
             THEN [e EXCEPT !.starts = Append(@, StartRec("resume", then)), !.tally = t1]
             ELSE [e EXCEPT !.tally = [t1 EXCEPT !.resolved = @ + 1]]

Engine == [ctx |-> ctx, chain |-> chain, starts |-> starts, tally |-> tally,
           sched |-> {}, direct |-> {}]

Remove(seq, i) == [j \in 1..(Len(seq) - 1) |-> IF j < i THEN seq[j] ELSE seq[j + 1]]

LastOp(op, arg, clk, m) ==
    [op |-> op, arg |-> arg, clk |-> clk, harm |-> isHarmonizerActive,
     idBefore |-> created, threw |-> m.threw, sched |-> m.sched, direct |-> m.direct]

Quiet == [threw |-> FALSE, sched |-> {}, direct |-> {}]

----------------------------------------------------------------------------
(* The microphone path: enableMicrophone() after its await of start() *)

\* node: this.micNode is set; live: the microphone sources connected into the
\* graph; pending: getUserMedia calls in flight; asked: the last call made
NoMic == [node |-> FALSE, live |-> 0, pending |-> 0, asked |-> "none"]

\* enableMicrophone(false): micNode, when set, is disconnected and cleared
MicDisable(m) ==
    IF m.node THEN [m EXCEPT !.node = FALSE, !.live = @ - 1] ELSE m

\* what a caller awaiting start() does once the promise resolves
ThenEffect(m, then) ==
    CASE then = "micOn"  -> [m EXCEPT !.pending = @ + 1]
      [] then = "micOff" -> MicDisable(m)
      [] OTHER           -> m

----------------------------------------------------------------------------
(* The recorder: startRecording(), stopRecording() *)

\* exists: this.mediaRecorder is set; state: its state; mimeType: the options
\* it was constructed with; chunks: the length of this.recordedChunks;
\* stopping: stop events queued by stop(), each with stopRecording's onstop
\* handler; caught: the call that threw inside the last startRecording.
\* session: the number of recorders constructed, which names the recorder
\* this.mediaRecorder refers to; owners: for each element of recordedChunks
\* the recorder that emitted it; queue: the recorders whose stop events are
\* queued, in the order of their stop() calls
NoRecorder ==
    [exists |-> FALSE, state |-> "inactive", mimeType |-> "none", chunks |-> 0,
     stopping |-> 0, caught |-> "none", session |-> 0, owners |-> << >>,
     queue |-> << >>]

PreferredCodec == "video/webm; codecs=vp9"

LesserCodec == "video/webm"

RecorderOptionsPreferredOnly(vp9) == PreferredCodec

\* the options of startRecording: vp9 is MediaRecorder.isTypeSupported(vp9)
RecorderOptions(vp9) == IF vp9 THEN PreferredCodec ELSE LesserCodec

\* whether startRecording returns before it touches anything
RecordingBlocked(c, ch, r) ==
    \/ ~ch.destNode \/ c = "null"
    \/ r.exists /\ r.state = "recording"

\* startRecording past its guards.  fault: "create" (new MediaRecorder
\* throws), "start" (mediaRecorder.start() throws) or "none"; both are caught.
StartRecordingOn(r, vp9, fault) ==
    LET cleared == [r EXCEPT !.chunks = 0, !.owners = << >>, !.caught = fault]
    IN  IF fault = "create" THEN cleared
        ELSE [cleared EXCEPT !.exists = TRUE, !.mimeType = RecorderOptions(vp9),
                             !.session = @ + 1,
                             !.state = IF fault = "start" THEN "inactive"
                                       ELSE "recording"]

\* whether stopRecording resolves in the call itself
StopResolvesAtOnce(r) == ~r.exists \/ r.state = "inactive"

\* ondataavailable of recorder s: if (e.data.size > 0)
\* this.recordedChunks.push(e.data), on the array the engine holds now
DataAvailableFrom(r, s, size) ==
    IF size > 0 THEN [r EXCEPT !.chunks = @ + 1, !.owners = Append(@, s)] ELSE r

\* the handler of the recorder this.mediaRecorder refers to
DataAvailable(r, size) == DataAvailableFrom(r, r.session, size)

\* the chunks recorders have emitted, by recorder
Emitted(log, s, size) == IF size > 0 THEN Append(log, s) ELSE log

\* whether stop events of recorder s are queued
StopQueued(r, s) == \E k \in 1..Len(r.queue) : r.queue[k] = s

\* a resolved stopRecording promise: the recorder the call found, what that
\* recorder was doing at the call, and the owners of the chunks of the blob
Blob(s, during, owners) == [session |-> s, during |-> during, owners |-> owners]

----------------------------------------------------------------------------
(* Actions *)

Manager == [voices |-> voices, created |-> created, steals |-> steals,
            sched |-> {}, direct |-> {}, cache |-> curveCache, threw |-> FALSE]

TriggerReadyCtxOnly == ctx # "null"

TriggerReady == ctx # "null" /\ chain.masterGain

StartFaults == {"ctor", "dest", "reverb"}

FaultAllowed(fault) == fault = "none" \/ tally.faults < MaxFaults

CountFault(t, fault) == IF fault = "none" THEN t ELSE [t EXCEPT !.faults = @ + 1]

\* start() called by the application
Start(fault) ==
    /\ tally.startCalls < MaxStarts
    /\ FaultAllowed(fault)
    /\ fault # "none" => ctx = "null"
    /\ \E state0 \in {"suspended", "running"} :
         LET e == StartSync(Engine, fault # "ctor", state0,
                            IF fault = "ctor" THEN "none" ELSE fault, "none")
         IN  /\ ctx' = e.ctx
             /\ chain' = e.chain
             /\ starts' = e.starts
             /\ tally' = CountFault(e.tally, fault)
             /\ last' = LastOp("start", 0, now, [Quiet EXCEPT !.sched = e.sched,
                                                              !.direct = e.direct])
    /\ UNCHANGED <<now, mix, heap, currentProfile, currentScale,
                   isHarmonizerActive, adrenalineLevel, curveCache, voices,
                   created, mic, recorder, steals>>

\* initAudioChain() resumes after setupReverb(): setupDelay, routing, updateMix
InitCont(i, fault) ==
    /\ i \in 1..Len(starts)
    /\ starts[i].pc = "init"
    /\ FaultAllowed(fault)
    /\ chain' = InitRest(chain, fault)
    /\ IF fault = "delay"
       THEN /\ starts' = Remove(starts, i)
            /\ mix' = mix
            /\ tally' = CountFault([tally EXCEPT !.rejected = @ + 1,
                            !.micRejected = IF starts[i].then = "none" THEN @ ELSE @ + 1],
                            fault)
            /\ last' = LastOp("initAudioChain", 0, now, Quiet)
       ELSE /\ starts' = [starts EXCEPT ![i].pc = "afterInit"]
            /\ mix' = UpdateMix(ctx, chain', heap[currentProfile], mix)
            /\ tally' = tally
            /\ last' = LastOp("initAudioChain", 0, now,
                              [Quiet EXCEPT !.sched = MixSched(ctx, chain'),
                                            !.direct = {"delayNode.delayTime",
                                                        "delayFeedback.gain"}])
    /\ UNCHANGED <<now, ctx, heap, currentProfile, currentScale,
                   isHarmonizerActive, adrenalineLevel, curveCache, voices,
                   created, mic, recorder, steals>>

\* start() resumes after initAudioChain(): resume the context if suspended
AfterInit(i) ==
    /\ i \in 1..Len(starts)
    /\ starts[i].pc = "afterInit"
    /\ IF ctx = "suspended"
       THEN /\ starts' = [starts EXCEPT ![i].pc = "resume"]
            /\ UNCHANGED <<mic, tally>>
       ELSE /\ starts' = Remove(starts, i)
            /\ mic' = ThenEffect(mic, starts[i].then)
            /\ tally' = [tally EXCEPT !.resolved = @ + 1]
    /\ last' = LastOp("start.afterInit", 0, now, Quiet)
    /\ UNCHANGED <<now, ctx, chain, mix, heap, currentProfile, currentScale,
                   isHarmonizerActive, adrenalineLevel, curveCache, voices,
                   created, steals, recorder>>

\* a ctx.resume() promise settles.  A rejection is caught in start() and in
\* playKey (then = "detached"); playError and playMetronomeTick attach no
\* handler (then = "bare").
ResumeSettle(i, ok) ==
    /\ i \in 1..Len(starts)
    /\ starts[i].pc = "resume"
    /\ ok \/ (ctx = "suspended" /\ tally.faults < MaxFaults)
    /\ ctx' = IF ok THEN "running" ELSE ctx
    /\ starts' = Remove(starts, i)
    /\ mic' = ThenEffect(mic, starts[i].then)
    /\ tally' = CountFault(
                  [tally EXCEPT
                     !.resolved = IF starts[i].then \in {"detached", "bare"} THEN @ ELSE @ + 1,
                     !.unhandled = IF starts[i].then = "bare" /\ ~ok THEN @ + 1 ELSE @],
                  IF ok THEN "none" ELSE "resume")
    /\ last' = LastOp("resume.settled", 0, now, Quiet)
    /\ UNCHANGED <<now, chain, mix, heap, currentProfile, currentScale,
                   isHarmonizerActive, adrenalineLevel, curveCache, voices,
                   created, steals, recorder>>

\* the resume attempt of a trigger on a suspended context
WithResume(ss, how) ==
    IF ctx = "suspended" THEN Append(ss, StartRec("resume", how)) ELSE ss

Chars == {97, 104}

EmptyChar == -1

\* playKey(char).  drift: how far the clock has advanced when the harmonizer's
\* triggerNote reads it.  fault: "node1" / "node2" make the node creation of
\* the first / second trigger throw, the others are those of start().
PlayKey(charCode, drift, fault) ==
    /\ tally.calls < MaxCalls
    /\ FaultAllowed(fault)
    /\ fault \in StartFaults => ctx = "null"
    /\ fault \in {"node1", "node2"} => TriggerReady
    /\ fault = "node2" => isHarmonizerActive
    /\ drift # 0 => (TriggerReady /\ isHarmonizerActive /\ ctx = "running")
    /\ IF ctx = "null"
       THEN \E state0 \in {"suspended", "running"} :
              LET e == StartSync(Engine, fault # "ctor", state0,
                                 IF fault \in {"dest", "reverb"} THEN fault ELSE "none",
                                 "none")
              IN  /\ ctx' = e.ctx
                  /\ chain' = e.chain
                  /\ starts' = e.starts
                  /\ tally' = CountFault([e.tally EXCEPT !.calls = @ + 1, !.keyCalls = @ + 1],
                                         fault)
                  /\ last' = LastOp("playKey", charCode, now,
                                    [Quiet EXCEPT !.sched = e.sched, !.direct = e.direct])
                  /\ UNCHANGED <<now, voices, created, steals, curveCache>>
       ELSE LET p    == heap[currentProfile]
                freq == KeyFreq(charCode, currentScale)
                pan  == KeyPan(charCode, currentScale)
                m1   == TriggerNote(Manager, TriggerReady, p, freq, 10, pan, 0, now,
                                    fault # "node1")
                m2   == IF isHarmonizerActive
                        THEN TriggerNote(m1, TriggerReady, p, HarmonizerFreq(freq), 4,
                                         pan \div 2, HarmonizerDelay, now + drift,
                                         fault # "node2")
                        ELSE m1
                m    == IF TriggerReady THEN m2 ELSE Manager
            IN  /\ starts' = WithResume(starts, "detached")
                /\ voices' = m.voices
                /\ created' = m.created
                /\ steals' = m.steals
                /\ curveCache' = m.cache
                /\ now' = now + drift
                /\ tally' = CountFault(
                       [tally EXCEPT !.calls = @ + 1, !.keyCalls = @ + 1,
                          !.keyReady = IF ctx # "null" /\ chain.masterGain THEN @ + 1 ELSE @,
                          !.keyThrew = IF m.threw THEN @ + 1 ELSE @,
                          !.primaries = @ + Cardinality({k \in 1..Len(m.voices) :
                                              /\ m.voices[k].id > created
                                              /\ m.voices[k].vel = 10})],
                       IF m.threw /\ freq # NaNFreq THEN fault ELSE "none")
                /\ last' = LastOp("playKey", charCode, now, m)
                /\ UNCHANGED <<ctx, chain>>
    /\ UNCHANGED <<mix, heap, currentProfile, currentScale, isHarmonizerActive,
                   adrenalineLevel, mic, recorder>>

\* playError(): two low tones through triggerNote, 55 Hz and 59 Hz
PlayError(drift, fault) ==
    /\ tally.calls < MaxCalls
    /\ ctx # "null"
    /\ FaultAllowed(fault)
    /\ fault \in {"none", "node1", "node2"}
    /\ fault # "none" => TriggerReady
    /\ drift # 0 => (TriggerReady /\ ctx = "running")
    /\ LET p  == heap[currentProfile]
           m1 == TriggerNote(Manager, TriggerReady, p, 55000, 6, 0, 0, now, fault # "node1")
           m  == TriggerNote(m1, TriggerReady, p, 59000, 6, 0, ErrorDelay, now + drift,
                             fault # "node2")
       IN  /\ starts' = WithResume(starts, "bare")
           /\ voices' = m.voices
           /\ created' = m.created
           /\ steals' = m.steals
           /\ curveCache' = m.cache
           /\ now' = now + drift
           /\ tally' = CountFault([tally EXCEPT !.calls = @ + 1],
                                  IF m.threw THEN fault ELSE "none")
           /\ last' = LastOp("playError", 0, now, m)
    /\ UNCHANGED <<ctx, chain, mix, heap, currentProfile, currentScale,
                   isHarmonizerActive, adrenalineLevel, mic, recorder>>

\* the times playMetronomeTick hands to its oscillator and gain
TickSched ==
    {<<"tick.frequency", SafetyMargin>>, <<"tick.sweep", SafetyMargin + 50>>,
     <<"tick.gain.set", SafetyMargin>>, <<"tick.gain.lin", SafetyMargin + 5>>,
     <<"tick.gain.exp", SafetyMargin + 50>>, <<"tick.start", SafetyMargin>>,
     <<"tick.stop", SafetyMargin + 100>>}

\* playMetronomeTick(accent): a one-shot oscillator outside the voice set
PlayMetronomeTick(accent) ==
    /\ tally.calls < MaxCalls
    /\ TriggerReady
    /\ starts' = WithResume(starts, "bare")
    /\ tally' = [tally EXCEPT !.calls = @ + 1]
    /\ last' = LastOp("playMetronomeTick", IF accent THEN 1 ELSE 0, now,
                      [Quiet EXCEPT !.sched = TickSched])
    /\ UNCHANGED <<now, ctx, chain, mix, heap, currentProfile, currentScale,
                   isHarmonizerActive, adrenalineLevel, curveCache, voices,
                   created, mic, recorder, steals>>

\* setProfile(p): the engine keeps the caller's object itself
SetProfile(obj) ==
    /\ tally.params < MaxParams
    /\ currentProfile' = obj
    /\ mix' = UpdateMix(ctx, chain, heap[obj], mix)
    /\ tally' = [tally EXCEPT !.params = @ + 1]
    /\ last' = LastOp("setProfile", obj, now, [Quiet EXCEPT !.sched = MixSched(ctx, chain)])
    /\ UNCHANGED <<now, ctx, chain, starts, heap, currentScale,
                   isHarmonizerActive, adrenalineLevel, curveCache, voices,
                   created, mic, recorder, steals>>

ParamChoices == {<<"attack", 0>>, <<"release", 0>>, <<"reverbMix", 100>>}

\* an updateParam whose write reaches the voices already triggered, as if
\* they read the profile object when they sound
UpdateParamRetro(key, value) ==
    /\ tally.params < MaxParams
    /\ heap' = [heap EXCEPT ![currentProfile][key] = value]
    /\ mix' = IF key = "reverbMix"
              THEN UpdateMix(ctx, chain, heap'[currentProfile], mix) ELSE mix
    /\ voices' = [i \in 1..Len(voices) |->
                    IF voices[i].inSet
                    THEN NewVoice(voices[i].id, voices[i].freq, voices[i].vel,
                                  voices[i].pan, voices[i].start, heap'[currentProfile])
                    ELSE voices[i]]
    /\ tally' = [tally EXCEPT !.params = @ + 1]
    /\ last' = LastOp("updateParam", value, now, Quiet)
    /\ UNCHANGED <<now, ctx, chain, starts, currentProfile, currentScale,
                   isHarmonizerActive, adrenalineLevel, curveCache, created,
                   mic, recorder, steals>>

\* updateParam(key, value): writes into the object currentProfile refers to
UpdateParam(key, value) ==
    /\ tally.params < MaxParams
    /\ heap' = [heap EXCEPT ![currentProfile][key] = value]
    /\ mix' = IF key = "reverbMix"
              THEN UpdateMix(ctx, chain, heap'[currentProfile], mix) ELSE mix
    /\ tally' = [tally EXCEPT !.params = @ + 1]
    /\ last' = LastOp("updateParam", value, now,
                      [Quiet EXCEPT !.sched = IF key = "reverbMix"
                                              THEN MixSched(ctx, chain) ELSE {}])
    /\ UNCHANGED <<now, ctx, chain, starts, currentProfile, currentScale,
                   isHarmonizerActive, adrenalineLevel, curveCache, voices,
                   created, mic, recorder, steals>>

ScaleChoices == {"pentatonic", "chromatic"}

SetScale(sc) ==
    /\ tally.params < MaxParams
    /\ currentScale' = sc
    /\ tally' = [tally EXCEPT !.params = @ + 1]
    /\ last' = LastOp("setScale", 0, now, Quiet)
    /\ UNCHANGED <<now, ctx, chain, mix, starts, heap, currentProfile,
                   isHarmonizerActive, adrenalineLevel, curveCache, voices,
                   created, mic, recorder, steals>>

SetHarmonizer(active) ==
    /\ tally.params < MaxParams
    /\ isHarmonizerActive' = active
    /\ tally' = [tally EXCEPT !.params = @ + 1]
    /\ last' = LastOp("setHarmonizer", 0, now, Quiet)
    /\ UNCHANGED <<now, ctx, chain, mix, starts, heap, currentProfile,
                   currentScale, adrenalineLevel, curveCache, voices, created,
                   mic, recorder, steals>>

AdrenalineChoices == {1000}

\* setAdrenaline(level)
SetAdrenaline(level) ==
    /\ tally.params < MaxParams
    /\ adrenalineLevel' = level
    /\ tally' = [tally EXCEPT !.params = @ + 1]
    /\ last' = LastOp("setAdrenaline", level, now, Quiet)
    /\ UNCHANGED <<now, ctx, chain, mix, starts, heap, currentProfile,
                   currentScale, isHarmonizerActive, curveCache, voices,
                   created, mic, recorder, steals>>

\* enableMicrophone(enabled) up to its first await
EnableMicrophone(enabled, fault) ==
    /\ tally.micCalls < MaxMicCalls
    /\ FaultAllowed(fault)
    /\ fault \in StartFaults \cup {"none"}
    /\ fault # "none" => ctx = "null"
    /\ LET then == IF enabled THEN "micOn" ELSE "micOff"
       IN  IF ctx = "null"
           THEN \E state0 \in {"suspended", "running"} :
                  LET e == StartSync(Engine, fault # "ctor", state0,
                                     IF fault = "ctor" THEN "none" ELSE fault, then)
                  IN  /\ ctx' = e.ctx
                      /\ chain' = e.chain
                      /\ starts' = e.starts
                      /\ mic' = [mic EXCEPT !.asked = then]
                      /\ tally' = CountFault(
                            [e.tally EXCEPT !.micCalls = @ + 1,
                               !.micRejected = IF fault = "none" THEN @ ELSE @ + 1],
                            fault)
                      /\ last' = LastOp("enableMicrophone", IF enabled THEN 1 ELSE 0, now,
                                        [Quiet EXCEPT !.sched = e.sched, !.direct = e.direct])
           ELSE /\ mic' = ThenEffect([mic EXCEPT !.asked = then], then)
                /\ tally' = [tally EXCEPT !.micCalls = @ + 1]
                /\ last' = LastOp("enableMicrophone", IF enabled THEN 1 ELSE 0, now, Quiet)
                /\ UNCHANGED <<ctx, chain, starts>>
    /\ UNCHANGED <<now, mix, heap, currentProfile, currentScale,
                   isHarmonizerActive, adrenalineLevel, curveCache, voices,
                   created, steals, recorder>>

\* getUserMedia settles: the source is created and connected, or the error is
\* caught and logged
MediaSettle(ok) ==
    /\ mic.pending > 0
    /\ ok \/ tally.faults < MaxFaults
    /\ mic' = IF ok THEN [mic EXCEPT !.pending = @ - 1, !.node = TRUE, !.live = @ + 1]
                    ELSE [mic EXCEPT !.pending = @ - 1]
    /\ tally' = CountFault(tally, IF ok THEN "none" ELSE "media")
    /\ last' = LastOp("getUserMedia.settled", 0, now,
                      [Quiet EXCEPT !.direct = IF ok THEN {"micGain.gain"} ELSE {}])
    /\ UNCHANGED <<now, ctx, chain, mix, starts, heap, currentProfile,
                   currentScale, isHarmonizerActive, adrenalineLevel,
                   curveCache, voices, created, steals, recorder>>

\* the faults of startRecording
RecorderFaults == {"create", "start"}

\* startRecording(canvasStream)
StartRecording(vp9, fault) ==
    /\ tally.recCalls < MaxRecCalls
    /\ FaultAllowed(fault)
    /\ fault # "none" => ~RecordingBlocked(ctx, chain, recorder)
    /\ recorder' = IF RecordingBlocked(ctx, chain, recorder) THEN recorder
                   ELSE StartRecordingOn(recorder, vp9, fault)
    /\ tally' = CountFault([tally EXCEPT !.recCalls = @ + 1], fault)
    /\ last' = LastOp("startRecording", IF vp9 THEN 1 ELSE 0, now, Quiet)
    /\ UNCHANGED <<now, ctx, chain, mix, starts, heap, currentProfile,
                   currentScale, isHarmonizerActive, adrenalineLevel, curveCache,
                   voices, created, mic, steals>>

\* stopRecording(): resolves at once with the chunks collected so far, or
\* sets onstop and calls stop().  last.arg is the number of chunks of the blob
\* the promise resolved with, -1 while it is pending.
StopRecording ==
    /\ tally.recCalls < MaxRecCalls
    /\ recorder' = IF StopResolvesAtOnce(recorder) THEN recorder
                   ELSE [recorder EXCEPT !.state = "inactive", !.stopping = @ + 1,
                                         !.queue = Append(@, recorder.session)]
    /\ tally' = [tally EXCEPT !.recCalls = @ + 1,
                              !.blobs = IF StopResolvesAtOnce(recorder)
                                        THEN Append(@, Blob(recorder.session,
                                                 IF StopQueued(recorder, recorder.session)
                                                 THEN "stopping" ELSE "inactive",
                                                 recorder.owners))
                                        ELSE @]
    /\ last' = LastOp("stopRecording",
                      IF StopResolvesAtOnce(recorder) THEN recorder.chunks ELSE -1,
                      now, Quiet)
    /\ UNCHANGED <<now, ctx, chain, mix, starts, heap, currentProfile,
                   currentScale, isHarmonizerActive, adrenalineLevel, curveCache,
                   voices, created, mic, steals>>

\* the events queued by the earliest stop() not yet served: dataavailable on
\* that recorder, then its onstop handler, which builds the blob from
\* this.recordedChunks, empties the array and resolves
RecorderStopped(size) ==
    /\ recorder.stopping > 0
    /\ LET s    == Head(recorder.queue)
           full == DataAvailableFrom(recorder, s, size)
       IN  /\ recorder' = [recorder EXCEPT !.stopping = @ - 1, !.chunks = 0,
                                           !.owners = << >>, !.queue = Tail(@)]
           /\ last' = LastOp("recorder.onstop", full.chunks, now, Quiet)
           /\ tally' = [tally EXCEPT !.emitted = Emitted(@, s, size),
                                     !.blobs = Append(@, Blob(s, "recording", full.owners))]
    /\ UNCHANGED <<now, ctx, chain, mix, starts, heap, currentProfile,
                   currentScale, isHarmonizerActive, adrenalineLevel, curveCache,
                   voices, created, mic, steals>>

\* the platform stops a recorder whose tracks have ended: its data is
\* delivered, and no onstop handler is set on a recorder that is recording.
\* The events of one event queue are served in order, so those of a stop()
\* called on an earlier recorder come first.
RecorderEnds(size) ==
    /\ recorder.exists
    /\ recorder.state = "recording"
    /\ recorder.queue = << >>
    /\ recorder' = [DataAvailable(recorder, size) EXCEPT !.state = "inactive"]
    /\ last' = LastOp("recorder.ended", size, now, Quiet)
    /\ tally' = [tally EXCEPT !.emitted = Emitted(@, recorder.session, size)]
    /\ UNCHANGED <<now, ctx, chain, mix, starts, heap, currentProfile,
                   currentScale, isHarmonizerActive, adrenalineLevel, curveCache,
                   voices, created, mic, steals>>

\* the engine clock advances while the context is running: by a step, or to
\* the nearest stop time of a node group that has not ended yet
TickStep == 10

\* the times at which the phase of a voice changes, and one time between its
\* releaseEnd and its natural stop
VoiceTimes(v) ==
    {v.attackEnd, v.releaseEnd + StopPad \div 2, v.stop}

TickTargets ==
    {t \in UNION {VoiceTimes(voices[i]) : i \in 1..Len(voices)} : t > now}
    \cup {t \in {now + TickStep} : t <= MaxTime}

Pending == {i \in 1..Len(voices) : voices[i].stop > now}

NextStop == CHOOSE t \in {voices[i].stop : i \in Pending} :
                \A i \in Pending : t <= voices[i].stop

Tick(t) ==
    /\ ctx = "running"
    /\ t \in TickTargets
    /\ now' = t
    /\ UNCHANGED <<ctx, chain, mix, starts, heap, currentProfile, currentScale,
                   isHarmonizerActive, adrenalineLevel, curveCache, voices,
                   created, mic, recorder, steals, last, tally>>

RunToStop ==
    /\ ctx = "running"
    /\ Pending # {}
    /\ now' = NextStop
    /\ UNCHANGED <<ctx, chain, mix, starts, heap, currentProfile, currentScale,
                   isHarmonizerActive, adrenalineLevel, curveCache, voices,
                   created, mic, recorder, steals, last, tally>>

OscEndedInSetOnly(i) ==
    /\ i \in 1..Len(voices)
    /\ now >= voices[i].stop
    /\ voices[i].inSet
    /\ voices' = Remove(voices, i)
    /\ tally' = [tally EXCEPT !.ended = @ + 1]
    /\ UNCHANGED <<now, ctx, chain, mix, starts, heap, currentProfile,
                   currentScale, isHarmonizerActive, adrenalineLevel,
                   curveCache, created, mic, recorder, steals, last>>

OscEndedEarly(i) ==
    /\ i \in 1..Len(voices)
    /\ voices' = Remove(voices, i)
    /\ tally' = [tally EXCEPT !.ended = @ + 1]
    /\ UNCHANGED <<now, ctx, chain, mix, starts, heap, currentProfile,
                   currentScale, isHarmonizerActive, adrenalineLevel, curveCache,
                   created, mic, recorder, steals, last>>

OscEndedByPitch(i) ==
    /\ i \in 1..Len(voices)
    /\ now >= voices[i].stop
    /\ voices' = SelectSeq(voices, LAMBDA v : Abs(v.freq - voices[i].freq) >= SameNoteWindow)
    /\ tally' = [tally EXCEPT !.ended = @ + 1]
    /\ UNCHANGED <<now, ctx, chain, mix, starts, heap, currentProfile,
                   currentScale, isHarmonizerActive, adrenalineLevel, curveCache,
                   created, mic, recorder, steals, last>>

\* osc1.onended of the i-th node group: the voice leaves the set and its
\* nodes are disconnected
OscEnded(i) ==
    /\ i \in 1..Len(voices)
    /\ now >= voices[i].stop
    /\ voices' = Remove(voices, i)
    /\ tally' = [tally EXCEPT !.ended = @ + 1]
    /\ UNCHANGED <<now, ctx, chain, mix, starts, heap, currentProfile,
                   currentScale, isHarmonizerActive, adrenalineLevel,
                   curveCache, created, mic, recorder, steals, last>>

----------------------------------------------------------------------------
(* Specifications *)

NoTally ==
    [startCalls |-> 0, ctxBuilt |-> 0, chainInits |-> 0, rejected |-> 0,
     resolved |-> 0, unhandled |-> 0, faults |-> 0, calls |-> 0, keyCalls |-> 0,
     keyReady |-> 0, keyThrew |-> 0, primaries |-> 0, params |-> 0, micCalls |-> 0,
     micRejected |-> 0, ended |-> 0, pitches |-> 0, variations |-> 0,
     mapped |-> << >>, curveLog |-> << >>, recCalls |-> 0, blobs |-> << >>,
     emitted |-> << >>]

NoLast ==
    [op |-> "new", arg |-> 0, clk |-> 0, harm |-> FALSE, idBefore |-> 0,
     threw |-> FALSE, sched |-> {}, direct |-> {}]

\* the engine as constructed
Init ==
    /\ now = 0
    /\ ctx = "null"
    /\ chain = NoChain
    /\ mix = NoMix
    /\ starts = << >>
    /\ heap = [o \in {EngineObj, CallerObj} |->
                 IF o = EngineObj THEN DefaultProfile ELSE CallerProfile]
    /\ currentProfile = EngineObj
    /\ currentScale = "pentatonic"
    /\ isHarmonizerActive = FALSE
    /\ adrenalineLevel = 0
    /\ curveCache = NoCurves
    /\ voices = << >>
    /\ created = 0
    /\ mic = NoMic
    /\ recorder = NoRecorder
    /\ steals = << >>
    /\ last = NoLast
    /\ tally = NoTally

\* the engine after one start() has run to completion on a running context
Started ==
    /\ now = 0
    /\ ctx = "running"
    /\ chain = FullChain
    /\ mix = MixTargets(DefaultProfile)
    /\ starts = << >>
    /\ heap = [o \in {EngineObj, CallerObj} |->
                 IF o = EngineObj THEN DefaultProfile ELSE CallerProfile]
    /\ currentProfile = EngineObj
    /\ currentScale = "pentatonic"
    /\ isHarmonizerActive = FALSE
    /\ adrenalineLevel = 0
    /\ curveCache = NoCurves
    /\ voices = << >>
    /\ created = 0
    /\ mic = NoMic
    /\ recorder = NoRecorder
    /\ steals = << >>
    /\ last = [NoLast EXCEPT !.op = "start.afterInit"]
    /\ tally = [NoTally EXCEPT !.startCalls = 1, !.ctxBuilt = 1, !.chainInits = 1,
                               !.resolved = 1]

\* the microphone calls made while start() is being followed
LifecycleMicCalls == 1

\* the engine from construction: start(), its continuations, the callers
\* that start it implicitly
Next ==
    \/ \E fault \in StartFaults \cup {"none"} : Start(fault)
    \/ \E i \in 1..Len(starts), fault \in {"none", "delay"} : InitCont(i, fault)
    \/ \E i \in 1..Len(starts) : AfterInit(i)
    \/ \E i \in 1..Len(starts), ok \in BOOLEAN : ResumeSettle(i, ok)
    \/ \E c \in {97}, fault \in StartFaults \cup {"none", "node1"} : PlayKey(c, 0, fault)
    \/ /\ tally.micCalls < LifecycleMicCalls
       /\ \E en \in BOOLEAN, fault \in StartFaults \cup {"none"} : EnableMicrophone(en, fault)
    \/ \E ok \in BOOLEAN : MediaSettle(ok)
    \/ SetProfile(CallerObj)
    \/ PlayError(0, "none")
    \/ PlayMetronomeTick(TRUE)
    \/ UpdateParam("reverbMix", 100)

Spec == Init /\ [][Next]_vars

\* a started engine: triggers, parameter changes, the clock, ended events
VoiceNext ==
    \/ \E c \in Chars \cup {EmptyChar}, drift \in {0, RenderQuantum},
          fault \in {"none", "node1", "node2"} : PlayKey(c, drift, fault)
    \/ \E drift \in {0, RenderQuantum}, fault \in {"none", "node1", "node2"} :
          PlayError(drift, fault)
    \/ \E accent \in BOOLEAN : PlayMetronomeTick(accent)
    \/ SetProfile(CallerObj)
    \/ \E kv \in ParamChoices : UpdateParam(kv[1], kv[2])
    \/ \E sc \in ScaleChoices : SetScale(sc)
    \/ \E b \in BOOLEAN : SetHarmonizer(b)
    \/ \E level \in AdrenalineChoices : SetAdrenaline(level)
    \/ \E t \in TickTargets : Tick(t)
    \/ RunToStop
    \/ \E i \in 1..Len(voices) : OscEnded(i)

VoiceSpec == Started /\ [][VoiceNext]_vars

\* a started engine whose clock advances and whose ended events are delivered
FairNext ==
    \/ \E c \in Chars, fault \in {"none", "node1", "node2"} : PlayKey(c, 0, fault)
    \/ \E b \in BOOLEAN : SetHarmonizer(b)
    \/ \E t \in TickTargets : Tick(t)
    \/ RunToStop
    \/ \E i \in 1..Len(voices) : OscEnded(i)

FairVoiceSpec ==
    /\ Started
    /\ [][FairNext]_vars
    /\ WF_vars(RunToStop)
    /\ WF_vars(\E i \in 1..Len(voices) : OscEnded(i))

\* a burst: triggerNote called directly, pitch after pitch in semitone steps,
\* on a started engine with the default profile
BurstPitch(k) == SemitoneFreq[k]

AtEdge == tally.pitches <= BurstEdge \/ tally.pitches >= MAX_POLYPHONY - 1

MayVary == tally.variations < BurstVariations /\ AtEdge

Vary(t, yes) == IF yes THEN [t EXCEPT !.variations = @ + 1] ELSE t

BurstApply(m, arg, t) ==
    /\ voices' = m.voices
    /\ created' = m.created
    /\ steals' = m.steals
    /\ curveCache' = m.cache
    /\ last' = LastOp("triggerNote", arg, now, m)
    /\ tally' = t
    /\ UNCHANGED <<now, ctx, chain, mix, starts, heap, currentProfile,
                   currentScale, isHarmonizerActive, adrenalineLevel, mic,
                   recorder>>

BurstTrigger(delay) ==
    /\ tally.pitches < BurstVoices
    /\ delay # 0 => MayVary
    /\ BurstApply(TriggerNote(Manager, TriggerReady, heap[currentProfile],
                              BurstPitch(tally.pitches + 1), 10, 0, delay, now, TRUE),
                  tally.pitches + 1,
                  Vary([tally EXCEPT !.pitches = @ + 1], delay # 0))

BurstRetrigger(k) ==
    /\ k \in {1, tally.pitches} \ {0}
    /\ MayVary
    /\ BurstApply(TriggerNote(Manager, TriggerReady, heap[currentProfile],
                              BurstPitch(k), 10, 0, 0, now, TRUE),
                  k, Vary(tally, TRUE))

BurstTick ==
    /\ MayVary
    /\ now' = now + BurstTickStep
    /\ tally' = Vary(tally, TRUE)
    /\ UNCHANGED <<ctx, chain, mix, starts, heap, currentProfile, currentScale,
                   isHarmonizerActive, adrenalineLevel, curveCache, voices,
                   created, mic, recorder, steals, last>>

BurstEnded(i) ==
    /\ MayVary
    /\ i \in 1..Len(voices)
    /\ now >= voices[i].stop
    /\ voices' = Remove(voices, i)
    /\ tally' = Vary([tally EXCEPT !.ended = @ + 1], TRUE)
    /\ UNCHANGED <<now, ctx, chain, mix, starts, heap, currentProfile,
                   currentScale, isHarmonizerActive, adrenalineLevel,
                   curveCache, created, mic, recorder, steals, last>>

BurstNext ==
    \/ \E delay \in {0, HarmonizerDelay} : BurstTrigger(delay)
    \/ \E k \in 1..BurstVoices : BurstRetrigger(k)
    \/ BurstTick
    \/ \E i \in 1..Len(voices) : BurstEnded(i)

BurstSpec == Started /\ [][BurstNext]_vars

\* the k-th key of a run of keys: consecutive char codes from 'a' on
KeyOfRun(k) == 96 + k

\* playKey(char) on an engine that is built and running, as one key of a run
TypeKey(charCode) ==
    /\ tally.pitches < MaxKeys
    /\ TriggerReady
    /\ ctx = "running"
    /\ LET p    == heap[currentProfile]
           freq == KeyFreq(charCode, currentScale)
           pan  == KeyPan(charCode, currentScale)
           m1   == TriggerNote(Manager, TriggerReady, p, freq, 10, pan, 0, now, TRUE)
           m    == IF isHarmonizerActive
                   THEN TriggerNote(m1, TriggerReady, p, HarmonizerFreq(freq), 4,
                                    pan \div 2, HarmonizerDelay, now, TRUE)
                   ELSE m1
       IN  /\ voices' = m.voices
           /\ created' = m.created
           /\ steals' = m.steals
           /\ curveCache' = m.cache
           /\ last' = LastOp("playKey", charCode, now, m)
    /\ tally' = [tally EXCEPT !.pitches = @ + 1, !.keyCalls = @ + 1]
    /\ UNCHANGED <<now, ctx, chain, mix, starts, heap, currentProfile,
                   currentScale, isHarmonizerActive, adrenalineLevel, mic,
                   recorder>>

\* a run of keys with the harmonizer off: every scale, one scale change at
\* any point of the run, clock steps and ended events at its ends
KeysNext ==
    \/ TypeKey(KeyOfRun(tally.pitches + 1))
    \/ \E sc \in Scales : SetScale(sc)
    \/ BurstTick
    \/ \E i \in 1..Len(voices) : BurstEnded(i)

KeysSpec == Started /\ [][KeysNext]_vars

\* the character-to-note mapping of playKey, evaluated on its own
MaxMapCalls == 2

MapChars == {0, 65535} \cup (95..104)

\* lines 314-324 of playKey: what the mapping computes for a char code under
\* the current scale
MapResult(charCode, s) ==
    [charCode |-> charCode, scale |-> s, noteIndex |-> NoteIndex(charCode, s),
     octave |-> Octave(charCode, s), interval |-> Interval(charCode, s),
     freq |-> KeyFreq(charCode, s), pan |-> KeyPan(charCode, s)]

MapChar(charCode) ==
    /\ Len(tally.mapped) < MaxMapCalls
    /\ tally' = [tally EXCEPT !.mapped = Append(@, MapResult(charCode, currentScale))]
    /\ last' = LastOp("mapChar", charCode, now, Quiet)
    /\ UNCHANGED <<now, ctx, chain, mix, starts, heap, currentProfile,
                   currentScale, isHarmonizerActive, adrenalineLevel,
                   curveCache, voices, created, mic, recorder, steals>>

MapNext ==
    \/ \E c \in MapChars : MapChar(c)
    \/ \E sc \in Scales : SetScale(sc)
    \/ \E b \in BOOLEAN : SetHarmonizer(b)
    \/ SetProfile(CallerObj)
    \/ \E level \in AdrenalineChoices : SetAdrenaline(level)
    \/ \E c \in Chars : PlayKey(c, 0, "none")

MapSpec == Started /\ [][MapNext]_vars

\* the engine after start() and setHarmonizer(true)
Harmonized ==
    /\ now = 0
    /\ ctx = "running"
    /\ chain = FullChain
    /\ mix = MixTargets(DefaultProfile)
    /\ starts = << >>
    /\ heap = [o \in {EngineObj, CallerObj} |->
                 IF o = EngineObj THEN DefaultProfile ELSE CallerProfile]
    /\ currentProfile = EngineObj
    /\ currentScale = "pentatonic"
    /\ isHarmonizerActive = TRUE
    /\ adrenalineLevel = 0
    /\ curveCache = NoCurves
    /\ voices = << >>
    /\ created = 0
    /\ mic = NoMic
    /\ recorder = NoRecorder
    /\ steals = << >>
    /\ last = [NoLast EXCEPT !.op = "setHarmonizer"]
    /\ tally = [NoTally EXCEPT !.startCalls = 1, !.ctxBuilt = 1, !.chainInits = 1,
                               !.resolved = 1]

\* triggers with the harmonizer, parameter changes, the clock, ended events
ParamNext ==
    \/ \E c \in Chars : PlayKey(c, 0, "none")
    \/ SetProfile(CallerObj)
    \/ \E kv \in ParamChoices : UpdateParam(kv[1], kv[2])
    \/ \E sc \in ScaleChoices : SetScale(sc)
    \/ \E b \in BOOLEAN : SetHarmonizer(b)
    \/ \E level \in AdrenalineChoices : SetAdrenaline(level)
    \/ \E t \in TickTargets : Tick(t)
    \/ \E i \in 1..Len(voices) : OscEnded(i)

ParamSpec == Harmonized /\ [][ParamNext]_vars

\* the engine after start() and setProfile(p) with the caller's object
Profiled ==
    /\ now = 0
    /\ ctx = "running"
    /\ chain = FullChain
    /\ mix = UpdateMix("running", FullChain, CallerProfile, MixTargets(DefaultProfile))
    /\ starts = << >>
    /\ heap = [o \in {EngineObj, CallerObj} |->
                 IF o = EngineObj THEN DefaultProfile ELSE CallerProfile]
    /\ currentProfile = CallerObj
    /\ currentScale = "pentatonic"
    /\ isHarmonizerActive = FALSE
    /\ adrenalineLevel = 0
    /\ curveCache = NoCurves
    /\ voices = << >>
    /\ created = 0
    /\ mic = NoMic
    /\ recorder = NoRecorder
    /\ steals = << >>
    /\ last = [NoLast EXCEPT !.op = "setProfile", !.arg = CallerObj]
    /\ tally = [NoTally EXCEPT !.startCalls = 1, !.ctxBuilt = 1, !.chainInits = 1,
                               !.resolved = 1]

\* the caller's profile in use: triggers, parameter changes, the clock
ProfileSpec == Profiled /\ [][ParamNext]_vars

\* makeDistortionCurve called on its own, amounts in thousandths
MaxCurveCalls == 3

CurveAmounts == {0, 4, 5, 14, 15, 24, 14996, 15000, 15004, 15005}

RequestCurve(amount) ==
    /\ Len(tally.curveLog) < MaxCurveCalls
    /\ LET r == MakeDistortionCurve(curveCache, amount)
       IN  /\ curveCache' = r.cache
           /\ tally' = [tally EXCEPT !.curveLog =
                           Append(@, [amount |-> amount, obj |-> r.obj,
                                      computed |-> r.computed, curve |-> r.curve])]
    /\ last' = LastOp("makeDistortionCurve", amount, now, Quiet)
    /\ UNCHANGED <<now, ctx, chain, mix, starts, heap, currentProfile,
                   currentScale, isHarmonizerActive, adrenalineLevel, voices,
                   created, mic, recorder, steals>>

\* a trigger under the caller's profile requests the curve for 0.3 * 50
CurveNext ==
    \/ \E amount \in CurveAmounts : RequestCurve(amount)
    \/ SetProfile(CallerObj)
    \/ \E c \in {97} : PlayKey(c, 0, "none")

CurveSpec == Started /\ [][CurveNext]_vars

\* a started engine: microphone calls, device access granted or denied,
\* with a trigger and a profile change around them
MicNext ==
    \/ \E en \in BOOLEAN : EnableMicrophone(en, "none")
    \/ \E ok \in BOOLEAN : MediaSettle(ok)
    \/ \E c \in {97} : PlayKey(c, 0, "none")
    \/ SetProfile(CallerObj)

MicSpec == Started /\ [][MicNext]_vars

\* a started engine: recordings started and stopped, the recorder's events,
\* with a trigger and a profile change around them
RecNext ==
    \/ \E vp9 \in BOOLEAN, fault \in RecorderFaults \cup {"none"} :
          StartRecording(vp9, fault)
    \/ StopRecording
    \/ \E size \in {0, 1} : RecorderStopped(size)
    \/ \E size \in {0, 1} : RecorderEnds(size)
    \/ \E c \in {97} : PlayKey(c, 0, "none")
    \/ SetProfile(CallerObj)

RecSpec == Started /\ [][RecNext]_vars

\* the boundaries of a voice's phases, and a time inside each phase
PhaseTimes(v) ==
    {v.start, (v.start + v.attackEnd) \div 2, v.attackEnd,
     (v.attackEnd + v.releaseStart) \div 2, v.releaseStart,
     (v.releaseStart + v.releaseEnd) \div 2, v.releaseEnd, v.stop}

\* the engine clock advances to a boundary or into a phase of some voice
Advance(t) ==
    /\ ctx = "running"
    /\ t > now
    /\ t \in UNION {PhaseTimes(voices[i]) : i \in 1..Len(voices)}
    /\ now' = t
    /\ UNCHANGED <<ctx, chain, mix, starts, heap, currentProfile, currentScale,
                   isHarmonizerActive, adrenalineLevel, curveCache, voices,
                   created, mic, recorder, steals, last, tally>>

\* a started engine whose voices are followed through their phases
PhaseNext ==
    \/ \E c \in Chars : PlayKey(c, 0, "none")
    \/ SetProfile(CallerObj)
    \/ \E kv \in ParamChoices : UpdateParam(kv[1], kv[2])
    \/ \E t \in UNION {PhaseTimes(voices[i]) : i \in 1..Len(voices)} : Advance(t)
    \/ \E i \in 1..Len(voices) : OscEnded(i)

PhaseSpec == Started /\ [][PhaseNext]_vars

\* the mix for every reverbMix from 0 to 1 in steps of 0.01
ReverbMixes == 0..100

MixNext ==
    \/ \E r \in ReverbMixes : UpdateParam("reverbMix", r)
    \/ SetProfile(CallerObj)

MixSpec == Started /\ [][MixNext]_vars

----------------------------------------------------------------------------
(* Properties *)

Active == ActiveVoices(voices)

StolenIds == [k \in 1..Len(steals) |-> steals[k].id]

\* C1: whenever a trigger has finished, and after every steal and every ended
\* event, the active voice set holds at most MAX_POLYPHONY voices.
C1_PolyphonyBound == Cardinality(Active) <= MAX_POLYPHONY

\* a trigger at the limit has stolen for capacity and left the set full
C1_Witness ==
    /\ Cardinality(Active) = MAX_POLYPHONY
    /\ \E k \in 1..Len(steals) : steals[k].fade = CapacityFade

\* the burst is complete: BurstVoices pitches were triggered, each once, and
\* no node group has ended
BurstDone ==
    /\ tally.pitches = BurstVoices
    /\ created = BurstVoices
    /\ tally.ended = 0

\* start times follow the order of the triggers
StartsFollowTriggers ==
    \A i, j \in 1..Len(voices) : i < j => voices[i].start <= voices[j].start

\* C2 as claimed: a burst of 35 distinct pitches leaves 30 active voices and
\* the forced steals hit the earliest-triggered voices in trigger order.
C2_StealsEarliestTriggered ==
    BurstDone =>
        /\ Cardinality(Active) = MAX_POLYPHONY
        /\ StolenIds = [k \in 1..(BurstVoices - MAX_POLYPHONY) |-> k]

\* C2 amended: the burst leaves 30 active voices and causes 5 forced steals,
\* all for capacity; they hit the earliest-triggered voices in trigger order
\* when the start times follow the trigger order (no trigger carries a delay
\* offset that puts its start after that of a later trigger).
C2_StealsOldestStart ==
    BurstDone =>
        /\ Cardinality(Active) = MAX_POLYPHONY
        /\ Len(steals) = BurstVoices - MAX_POLYPHONY
        /\ \A k \in 1..Len(steals) : steals[k].fade = CapacityFade
        /\ StartsFollowTriggers =>
              StolenIds = [k \in 1..(BurstVoices - MAX_POLYPHONY) |-> k]

\* a complete burst during which the clock advanced
C2_Witness == BurstDone /\ StartsFollowTriggers /\ now > 0

----------------------------------------------------------------------------
(* Same-pitch stealing and the end of a voice *)

\* the voice whose trigger stole v, while its node group exists
Stealers(v) == {j \in 1..Len(voices) : voices[j].id = v.killedBy}

SelfStolen == {i \in 1..Len(voices) : voices[i].fade = SelfStealFade}

NoTwoActiveSamePitch ==
    \A i, j \in Active : i # j => ~SameNote(voices[i], voices[j].freq)

\* C3 as claimed: after a same-pitch retrigger one voice of the pitch is
\* active, the older one is in forced release from the newer one's start
\* time, and its fade is shorter than the newer voice's attack.
C3_FadeShorterThanAttack ==
    /\ NoTwoActiveSamePitch
    /\ \A i \in SelfStolen :
         /\ ~voices[i].inSet
         /\ \A j \in Stealers(voices[i]) :
              /\ voices[i].killT = voices[j].start
              /\ voices[i].fade < voices[j].attackEnd - voices[j].start

\* C3 amended: at most one active voice lies within 1 Hz of any pitch; a
\* voice stolen by a same-pitch trigger is out of the set, its gain timeline
\* ends with a decay to zero of time constant 0.012 s that begins at the
\* start time of the voice that stole it, and its fade duration is the fixed
\* 0.04 s whatever the attack of the newer voice is.
C3_SelfStealFixedFade ==
    /\ NoTwoActiveSamePitch
    /\ \A i \in SelfStolen :
         LET v == voices[i]
         IN  /\ ~v.inSet
             /\ v.fade = SelfStealFade
             /\ v.gain[Len(v.gain)] = Event("target", 0, v.killT, (SelfStealFade * 3) \div 10)
             /\ \A k \in 1..(Len(v.gain) - 1) : v.gain[k].time < v.killT
             /\ \A j \in Stealers(v) :
                  /\ v.killT = voices[j].start
                  /\ SameNote(v, voices[j].freq)
                  /\ j > i

\* a same-pitch retrigger whose new voice is active and has an attack that
\* is not longer than the fade of the voice it stole
C3_Witness ==
    \E i \in SelfStolen : \E j \in Stealers(voices[i]) :
        /\ voices[j].inSet
        /\ voices[j].attackEnd - voices[j].start <= voices[i].fade

\* C4 as claimed: every voice, stolen or not, has a gain below 0.001 at its
\* releaseEnd and an oscillator stop time of at most releaseEnd + 0.2 s.
C4_SilentAndStoppedByReleaseEnd ==
    \A i \in 1..Len(voices) :
        /\ GainAtReleaseEnd(voices[i]) < GainFloor
        /\ voices[i].stop <= voices[i].releaseEnd + StopPad

\* the longest a steal can move a stop past releaseEnd + 0.2 s: the stealing
\* trigger read the clock before the old stop, and stops the oscillators
\* delay + 0.04 + fade + 0.05 s after that reading
MaxStealLag == HarmonizerDelay + SafetyMargin + CapacityFade + KillStopPad

\* C4 amended: a voice that is not stolen has gain exactly 0.001 at its
\* releaseEnd (it decays towards zero from there) and stops at releaseEnd +
\* 0.2 s; a stolen voice stops either there or fade + 0.05 s after the steal
\* time, which is less than MaxStealLag after releaseEnd + 0.2 s.
C4_StopBounded ==
    \A i \in 1..Len(voices) :
        LET v == voices[i]
        IN  IF v.killT = -1
            THEN /\ GainAtReleaseEnd(v) = GainFloor
                 /\ v.stop = v.releaseEnd + StopPad
            ELSE /\ v.stop \in {v.killT + v.fade + KillStopPad, v.releaseEnd + StopPad}
                 /\ v.stop < v.releaseEnd + StopPad + MaxStealLag

\* a steal late in a voice's life moved its stop past releaseEnd + 0.2 s
C4_Witness ==
    \E i \in 1..Len(voices) :
        /\ voices[i].killT # -1
        /\ voices[i].stop > voices[i].releaseEnd + StopPad

----------------------------------------------------------------------------
(* Teardown *)

MaxVoiceId == 2 * MaxCalls

InGraph(id) == \E i \in 1..Len(voices) : voices[i].id = id

\* C5: with the clock advancing and ended events delivered, every voice that
\* was inserted is eventually removed and its nodes disconnected, and once
\* the triggers have ceased no node group is left, whether the voice ended
\* naturally, was stolen, or a later trigger failed.
C5_EveryVoiceRemoved ==
    /\ \A id \in 1..MaxVoiceId : InGraph(id) ~> ~InGraph(id)
    /\ <>[](voices = << >>)

\* every trigger has been made, one of them stole a voice, and every node
\* group, the stolen one included, has ended and been torn down
C5_Witness ==
    /\ voices = << >>
    /\ tally.calls = MaxCalls
    /\ Len(steals) >= 1
    /\ tally.ended = created
    /\ created >= 2

----------------------------------------------------------------------------
(* Scheduling times *)

\* the parameters updateMix and initAudioChain schedule at the clock reading
AtClockKinds ==
    {"mix.dry", "mix.wet", "mix.delaySend", "compressor.threshold", "compressor.knee",
     "compressor.ratio", "compressor.attack", "compressor.release"}

\* the parameters the engine writes directly, on nodes it has just created
DirectWrites ==
    {"panner.pan", "masterGain.gain", "delayNode.delayTime", "delayFeedback.gain",
     "micGain.gain"}

----------------------------------------------------------------------------
(* playKey *)

\* the voices a step has created
NewVoices == {k \in 1..Len(voices') : voices'[k].id > created}

\* a playKey call that returned normally
KeyReturned == tally'.keyCalls = tally.keyCalls + 1 /\ ~last'.threw

\* C7 as claimed: playKey on a started engine creates one primary voice that
\* starts 0.04 s after the clock reading and, exactly when the harmonizer is
\* on, one quieter voice at 1.5 times the frequency that starts exactly
\* 0.08 s after the primary; toggling the harmonizer creates and cancels
\* nothing.
C7_HarmonizerExactOffset ==
    [][/\ KeyReturned =>
            LET P == {k \in NewVoices : voices'[k].vel = 10}
                H == {k \in NewVoices : voices'[k].vel = 4}
            IN  /\ NewVoices = P \cup H
                /\ Cardinality(P) = 1
                /\ \A k \in P : voices'[k].start = now + SafetyMargin
                /\ Cardinality(H) = IF isHarmonizerActive THEN 1 ELSE 0
                /\ \A k \in P, h \in H :
                     /\ voices'[h].freq = HarmonizerFreq(voices'[k].freq)
                     /\ voices'[h].start = voices'[k].start + HarmonizerDelay
       /\ isHarmonizerActive' # isHarmonizerActive =>
            (voices' = voices /\ created' = created)]_vars

\* a playKey call whose harmonizer voice starts 0.08 s plus one render
\* quantum after its primary
C7_Witness ==
    /\ last.op = "playKey"
    /\ \E k, h \in 1..Len(voices) :
         /\ voices[k].id = last.idBefore + 1 /\ voices[k].vel = 10
         /\ voices[h].id = last.idBefore + 2 /\ voices[h].vel = 4
         /\ voices[h].start = voices[k].start + HarmonizerDelay + RenderQuantum

\* C8 as claimed: every playKey call has triggered a primary voice.
C8_EveryKeyTriggers == tally.primaries = tally.keyCalls

\* C8 amended: a playKey call triggers a primary voice when the context and
\* the master gain exist at the call and node creation does not throw; a
\* call made before the context exists issues start() and triggers nothing.
C8_ReadyKeysTrigger ==
    /\ tally.primaries = tally.keyReady - tally.keyThrew
    /\ tally.keyReady <= tally.keyCalls

\* a playKey call before start() that triggered nothing, then one that did
C8_Witness ==
    /\ tally.keyCalls = 2
    /\ tally.keyReady = 1
    /\ tally.primaries = 1
    /\ tally.startCalls = 1

----------------------------------------------------------------------------
(* start() *)

\* a start() call on an engine whose context exists
StartOnBuilt == tally'.startCalls = tally.startCalls + 1 /\ ctx # "null"

\* C9: over all interleavings of start() calls, explicit and implicit, the
\* context and the output graph are constructed at most once, and start()
\* on an engine whose context exists changes nothing but a pending resume
\* of a suspended context.
C9_StartIdempotent ==
    [][/\ tally'.ctxBuilt <= 1
       /\ tally'.chainInits <= 1
       /\ StartOnBuilt =>
            /\ <<ctx, chain, mix, heap, currentProfile, voices, created, mic>>'
                 = <<ctx, chain, mix, heap, currentProfile, voices, created, mic>>
            /\ \/ starts' = starts
               \/ ctx = "suspended" /\ starts' = Append(starts, StartRec("resume", "none"))]_vars

\* a second start() arrived while the first was awaiting initAudioChain()
C9_Witness ==
    /\ tally.startCalls >= 2
    /\ tally.ctxBuilt = 1
    /\ \E i, j \in 1..Len(starts) : starts[i].pc = "init" /\ starts[j].pc = "resume"

\* C10 as claimed: no promise returned by start() rejects.
C10_StartNeverRejects == tally.rejected = 0

\* the start() issued by playKey rejected: the AudioContext constructor or
\* a node factory of initAudioChain threw
C10_Witness ==
    /\ last.op = "playKey"
    /\ tally.rejected = 1
    /\ tally.startCalls = 1
    /\ tally.resolved = 0

----------------------------------------------------------------------------
(* A failed start() *)

\* a start() has rejected, no start() is in flight and the graph is not routed
FailedStart == tally.rejected >= 1 /\ starts = << >> /\ ~chain.routed

StartCall == tally'.startCalls = tally.startCalls + 1

\* C11 as claimed: after a failed start() no trigger creates a voice, and
\* the next start() call enters construction again.
C11_InertAndRetried ==
    [][FailedStart =>
         /\ created' = created
         /\ StartCall => StartBuilds(ctx)]_vars

\* initAudioChain failed after the context was assigned: a later start()
\* resolved without building anything and the graph is still not routed
C11_Witness ==
    /\ FailedStart
    /\ ctx # "null"
    /\ tally.startCalls >= 2
    /\ tally.chainInits = 1
    /\ tally.resolved >= 1

----------------------------------------------------------------------------
(* A trigger whose node creation or configuration throws *)

\* C12 as claimed: no exception leaves playKey or playError.
C12_NoTriggerThrows == ~last.threw

\* playKey('') : charCodeAt(0) is NaN, so is the frequency, and
\* osc1.frequency.setValueAtTime throws out of triggerNote and playKey
C12_Witness ==
    /\ last.op = "playKey"
    /\ last.arg = EmptyChar
    /\ last.threw
    /\ created = last.idBefore

----------------------------------------------------------------------------
(* The character-to-note mapping *)

Mapped == {tally.mapped[i] : i \in 1..Len(tally.mapped)}

LastPrimary == {k \in 1..Len(voices) : last.op = "playKey" /\ voices[k].id = last.idBefore + 1}

----------------------------------------------------------------------------
(* The effects mix *)

\* C15: for every reverbMix in [0, 1] the scheduled targets are wet =
\* min(0.8, reverbMix), delay-send = 0.4 wet and dry = 1 - 0.5 wet, so dry
\* stays in [0.6, 1]; reverbMix 0 gives (dry 1, wet 0, send 0) and reverbMix
\* 1 gives (dry 0.6, wet 0.8, send 0.32).
C15_MixTargets ==
    LET r == heap[currentProfile].reverbMix
    IN  /\ mix.wet = IF r <= 80 THEN 10 * r ELSE 800
        /\ 10 * mix.delaySend = 4 * mix.wet
        /\ 2 * (1000 - mix.dry) = mix.wet
        /\ mix.dry >= 600 /\ mix.dry <= 1000
        /\ r = 0 => mix = [dry |-> 1000, wet |-> 0, delaySend |-> 0]
        /\ r = 100 => mix = [dry |-> 600, wet |-> 800, delaySend |-> 320]

\* updateParam('reverbMix', 1) has scheduled the capped targets
C15_Witness ==
    /\ last.op = "updateParam"
    /\ heap[currentProfile].reverbMix = 100
    /\ mix.wet = 800

\* initAudioChain has run to its end: the graph is built and routed
GraphBuilt == chain.routed

\* a started engine with no start() in flight
Quiescent == GraphBuilt /\ starts = << >>

\* C16: once initAudioChain has completed, and so at every quiescent state of
\* a started engine, the last targets scheduled on the dry, wet and
\* delay-send gains are those computed from the reverbMix of the current
\* profile, whatever setProfile and updateParam calls were made before
\* start(), during its initialisation or after it.
C16_MixFollowsProfile == GraphBuilt => mix = MixTargets(heap[currentProfile])

\* start() completed after the caller's profile had been set, before start()
\* or while it was initialising, and the mix is that of the caller's profile
C16_Witness ==
    /\ Quiescent
    /\ last.op = "start.afterInit"
    /\ currentProfile = CallerObj
    /\ mix = MixTargets(CallerProfile)
    /\ mix # MixTargets(DefaultProfile)

----------------------------------------------------------------------------
(* Parameter changes and the voices already triggered *)

\* a call of setProfile, updateParam, setScale, setHarmonizer or setAdrenaline
ParamCall == tally'.params = tally.params + 1

\* C17: a parameter change leaves the voice set and the scheduled frequency,
\* pan, envelope, filter cutoff and stop time of every existing voice as
\* they were, a harmonizer voice that has not started yet included.
C17_ParamsLeaveVoices ==
    [][ParamCall => /\ voices' = voices
                    /\ created' = created
                    /\ steals' = steals]_vars

\* a harmonizer voice that has not started yet, still with the envelope and
\* the cutoff of the profile and adrenaline level it was triggered under,
\* after a parameter change that gives new voices other values
C17_Witness ==
    /\ last.op \in {"setProfile", "updateParam", "setAdrenaline"}
    /\ \E i \in Active :
         /\ voices[i].vel = 4
         /\ voices[i].start > now
         /\ \/ voices[i].filterBase # BaseFreq(heap[currentProfile])
            \/ voices[i].releaseEnd #
                 NewVoice(0, 0, 4, 0, voices[i].start, heap[currentProfile]).releaseEnd

----------------------------------------------------------------------------
(* The distortion curve cache *)

\* Math.round(amount * 100) of a logged request, amount in thousandths
RoundedKey(amount) == (amount + 5) \div 10

\* C18: of two requests whose amounts round to the same non-zero cache key,
\* the later one returns the object the earlier one returned and computes
\* nothing, whatever was requested in between.
C18_CachedCurveReturned ==
    \A i, j \in 1..Len(tally.curveLog) :
        (/\ i < j
         /\ RoundedKey(tally.curveLog[i].amount) = RoundedKey(tally.curveLog[j].amount)
         /\ RoundedKey(tally.curveLog[j].amount) # 0)
        => /\ tally.curveLog[j].obj = tally.curveLog[i].obj
           /\ ~tally.curveLog[j].computed

\* two requests for different amounts with the same non-zero key, with a
\* request for another key in between that allocated a curve of its own
C18_Witness ==
    /\ Len(tally.curveLog) = 3
    /\ tally.curveLog[1].amount # tally.curveLog[3].amount
    /\ RoundedKey(tally.curveLog[1].amount) = RoundedKey(tally.curveLog[3].amount)
    /\ RoundedKey(tally.curveLog[1].amount) = 1500
    /\ tally.curveLog[2].computed
    /\ tally.curveLog[3].obj = tally.curveLog[1].obj
    /\ tally.curveLog[2].obj # tally.curveLog[1].obj

----------------------------------------------------------------------------
(* The microphone *)

\* C19 as claimed: when the last call was enableMicrophone(false) and every
\* call has completed, no microphone source is connected into the engine.
C19_DisabledMeansDisconnected ==
    (mic.asked = "micOff" /\ mic.pending = 0) => mic.live = 0

\* the last call was enableMicrophone(false), nothing is pending, micNode is
\* null and a microphone source is still connected
C19_Witness ==
    /\ mic.asked = "micOff"
    /\ mic.pending = 0
    /\ ~mic.node
    /\ mic.live >= 1

\* getUserMedia rejected: device access was denied
Denied == mic'.pending = mic.pending - 1 /\ tally'.faults = tally.faults + 1

\* C20 as claimed: after a denial no microphone source is connected, nothing
\* is propagated to the caller, and the profile, the mix and the voice set
\* are unchanged.
C20_DenialDisablesMic ==
    [][Denied =>
         /\ mic'.live = 0
         /\ tally'.micRejected = tally.micRejected
         /\ <<heap, currentProfile, mix, voices>>' = <<heap, currentProfile, mix, voices>>]_vars

\* access was denied to a second enableMicrophone(true) and the source of the
\* first is still connected
C20_Witness ==
    /\ last.op = "getUserMedia.settled"
    /\ tally.faults = 1
    /\ mic.pending = 0
    /\ mic.live = 1
    /\ mic.node

----------------------------------------------------------------------------
(* Recording *)

\* a startRecording call that got past its guards
RecStart ==
    /\ last'.op = "startRecording"
    /\ tally'.recCalls = tally.recCalls + 1
    /\ ~RecordingBlocked(ctx, chain, recorder)

\* a stopRecording call
RecStop == last'.op = "stopRecording" /\ tally'.recCalls = tally.recCalls + 1

\* the last startRecording caught an error of the recorder
RecordingFailed == recorder.caught # "none"

\* C21: when the preferred codec is unsupported the recorder is constructed
\* with the lesser one and records; when constructing or starting the
\* recorder throws, nothing is propagated, no recording is active (a following
\* stopRecording resolves at once with a blob of no chunks), and the voices,
\* the profile and the mix are as before.
C21_RecordingFallback ==
    [][/\ (RecStart /\ last'.arg = 0 /\ recorder'.caught # "create") =>
             recorder'.mimeType = LesserCodec
       /\ (RecStart /\ last'.arg = 0 /\ recorder'.caught = "none") =>
             recorder'.state = "recording"
       /\ (RecStart /\ recorder'.caught # "none") =>
             /\ ~last'.threw
             /\ <<voices, created, heap, currentProfile, mix>>'
                  = <<voices, created, heap, currentProfile, mix>>
       /\ RecordingFailed => (StopResolvesAtOnce(recorder) /\ recorder.chunks = 0)
       /\ (RecordingFailed /\ RecStop) => (last'.arg = 0 /\ recorder' = recorder)]_vars

\* the preferred codec was unsupported, starting the recorder built with the
\* lesser one threw, and the following stopRecording resolved at once with an
\* empty blob while a voice was sounding
C21_Witness ==
    /\ last.op = "stopRecording"
    /\ last.arg = 0
    /\ recorder.caught = "start"
    /\ recorder.mimeType = LesserCodec
    /\ recorder.state = "inactive"
    /\ ActiveVoices(voices) # {}

----------------------------------------------------------------------------
(* Triggers on a suspended context *)

\* a playKey, playError or playMetronomeTick call
TriggerCall == tally'.calls = tally.calls + 1

\* the call appended a resume attempt to the promises in flight
ResumeIssued ==
    /\ Len(starts') = Len(starts) + 1
    /\ starts'[Len(starts')].pc = "resume"

\* C22 as claimed: a trigger on a suspended context issues a resume attempt
\* and schedules its sound in the same call, and a failed resume is reported
\* nowhere: neither thrown by the trigger nor left as an unhandled rejection.
C22_ResumeRetriedAndContained ==
    [][/\ (TriggerCall /\ ctx = "suspended") =>
             (ResumeIssued /\ last'.sched # {} /\ ~last'.threw)
       /\ tally'.unhandled = 0]_vars

\* playError on a suspended, fully built engine created its two voices and
\* issued a resume whose rejection nothing handles
C22_Witness ==
    /\ last.op = "resume.settled"
    /\ tally.unhandled = 1
    /\ chain.routed
    /\ ctx = "suspended"
    /\ created >= 2

----------------------------------------------------------------------------
(* The pitch window of self-stealing *)

\* within 1 Hz of each other, frequencies in millihertz
Within1Hz(f, g) == Abs(f - g) < 1000

\* C23: when a trigger inserts a voice of frequency f, every voice that was
\* active and within 1 Hz of f is out of the set, its gain automation from the
\* new voice's start time on replaced by a decay to zero of fade 0.04 s (time
\* constant 0.012 s) that begins at that start time; a voice that was active
\* and 1 Hz or more away from every inserted frequency is left as it was,
\* unless it was stolen for capacity.
C23_SelfStealWindow ==
    [][(TriggerCall /\ ~last'.threw /\ NewVoices # {}) =>
          /\ \A n \in NewVoices, i \in ActiveVoices(voices) :
               Within1Hz(voices[i].freq, voices'[n].freq) =>
                  LET v == voices'[i]
                  IN  /\ ~v.inSet
                      /\ v.fade = 40
                      /\ v.killT = voices'[n].start
                      /\ v.gain[Len(v.gain)] = Event("target", 0, v.killT, 12)
                      /\ \A k \in 1..(Len(v.gain) - 1) : v.gain[k].time < v.killT
          /\ \A i \in ActiveVoices(voices) :
               (\A n \in NewVoices : ~Within1Hz(voices[i].freq, voices'[n].freq)) =>
                  (voices'[i] = voices[i] \/ voices'[i].fade = CapacityFade)]_vars

\* a trigger stole a voice whose pitch was near, not equal to, its own (E4
\* against 1.5 times A3, 0.37 Hz apart) and left a voice of another pitch
C23_Witness ==
    \E i, j, k \in 1..Len(voices) :
        /\ voices[i].fade = SelfStealFade
        /\ voices[j].id = voices[i].killedBy
        /\ voices[j].freq # voices[i].freq
        /\ Within1Hz(voices[i].freq, voices[j].freq)
        /\ voices[j].inSet
        /\ voices[k].inSet /\ voices[k].id < voices[j].id
        /\ voices[k].killT = -1

----------------------------------------------------------------------------
(* The capacity steal *)

\* a triggerNote call of the burst that inserted its voice
BurstInsert == last'.op = "triggerNote" /\ created' = created + 1

\* the active voices within 1 Hz of the voice a step inserts
Matching == {i \in ActiveVoices(voices) :
               Within1Hz(voices[i].freq, voices'[Len(voices')].freq)}

\* the active voices left once the matching ones are stolen
Remaining == ActiveVoices(voices) \ Matching

\* the voices of S a step has stolen with the capacity fade of 0.1 s
CapacityStolen(S) == {i \in S : ~voices'[i].inSet /\ voices'[i].fade = 100}

\* C24: the capacity check counts the set left by self-stealing.  If that
\* holds 30 voices or more, exactly one of them is stolen, with fade 0.1 s,
\* and it is the one with the smallest start time, the earliest inserted among
\* equal start times; if it holds fewer, the step steals the matching voices
\* and nothing else.
C24_CapacityAfterSelfSteal ==
    [][BurstInsert =>
          /\ \A i \in Matching : ~voices'[i].inSet /\ voices'[i].fade = 40
          /\ IF Cardinality(Remaining) >= 30
             THEN /\ Cardinality(CapacityStolen(Remaining)) = 1
                  /\ \A i \in Remaining \ CapacityStolen(Remaining) :
                        voices'[i] = voices[i]
                  /\ \A i \in CapacityStolen(Remaining), j \in Remaining :
                        \/ voices[i].start < voices[j].start
                        \/ voices[i].start = voices[j].start /\ i <= j
             ELSE /\ \A i \in Remaining : voices'[i] = voices[i]
                  /\ StolenBy(voices, SubSeq(voices', 1, Len(voices))) = Matching]_vars

\* a retrigger of an active pitch in a full set: the matching voice was
\* stolen, no voice was stolen for capacity by that trigger, and the set is
\* full again; a capacity steal had happened before
C24_Witness ==
    /\ last.op = "triggerNote"
    /\ created = last.idBefore + 1
    /\ Cardinality(Active) = MAX_POLYPHONY
    /\ Len(steals) >= 2
    /\ steals[Len(steals)].fade = SelfStealFade
    /\ steals[Len(steals) - 1].fade = CapacityFade

----------------------------------------------------------------------------
(* The gain of a stolen voice *)

Stolen == {i \in 1..Len(voices) : voices[i].killT # -1}

\* C25 as claimed: the timeline of a stolen voice is its envelope up to the
\* steal time followed by a single decay to zero that begins at the steal
\* time, and that decay starts no higher than the value the envelope had at
\* the steal time, also for a steal at or before the voice's start.
C25_FadeFromEnvelopeValue ==
    \A i \in Stolen :
        LET v == voices[i]
        IN  /\ SubSeq(v.gain, 1, Len(v.gain) - 1) = CancelScheduledValues(v.env, v.killT)
            /\ v.gain[Len(v.gain)].kind = "target"
            /\ v.gain[Len(v.gain)].value = 0
            /\ v.gain[Len(v.gain)].time = v.killT
            /\ FadeStart(v) <= EnvelopeAt(v.env, v.killT)

\* a voice stolen at its own start time: every event of its envelope was
\* cancelled, the set-to-zero at its start included, so its oscillators start
\* under a gain that decays from the default 1.0
C25_Witness ==
    \E i \in Stolen :
        /\ voices[i].killT = voices[i].start
        /\ Len(voices[i].gain) = 1
        /\ FadeStart(voices[i]) = DefaultGain
        /\ EnvelopeAt(voices[i].env, voices[i].killT) = 0
        /\ voices[i].stop > voices[i].start

----------------------------------------------------------------------------
(* Disconnection *)

\* the voices whose node groups are connected
Connected(vs) == {vs[i].id : i \in 1..Len(vs)}

\* C26: the node group of a voice leaves the graph only in the ended event of
\* that voice, which fires no earlier than the voice's stop time and takes
\* one group; a group that has left never comes back; a step that steals
\* takes voices out of the active set and leaves every node group connected.
C26_DisconnectOnlyAtEnded ==
    [][/\ \A i \in 1..Len(voices) :
            voices[i].id \notin Connected(voices') =>
               /\ now >= voices[i].stop
               /\ Connected(voices) \ Connected(voices') = {voices[i].id}
               /\ tally'.ended = tally.ended + 1
               /\ created' = created
               /\ steals' = steals
       /\ \A id \in Connected(voices') \ Connected(voices) : id > created
       /\ Len(steals') > Len(steals) =>
            /\ Connected(voices) \subseteq Connected(voices')
            /\ ActiveVoices(voices') # ActiveVoices(voices)]_vars

\* a stolen voice in the middle of its fade: out of the active set, its node
\* group still connected, its stop time not reached
C26_Witness ==
    \E i \in Stolen :
        /\ ~voices[i].inSet
        /\ now > voices[i].killT
        /\ now < voices[i].stop
        /\ Cardinality(Active) >= 1

----------------------------------------------------------------------------
(* The phases of a voice *)

\* Scheduled 0, Attack 1, Decay 2, Sustain 3, Release 4, Silent 5: the phase
\* the scheduled envelope of v is in at a time
PhaseRank(v, time) ==
    IF time < v.start THEN 0
    ELSE IF time < v.attackEnd THEN 1
    ELSE IF time < v.releaseStart THEN 2
    ELSE IF time = v.releaseStart /\ time < v.releaseEnd THEN 3
    ELSE IF time < v.releaseEnd THEN 4
    ELSE 5

\* the times of the events of a gain timeline, in order
EventTimes(evs) == [k \in 1..Len(evs) |-> evs[k].time]

\* C27: a voice is created with attackEnd = start + max(0.01, attack),
\* releaseStart = attackEnd + decay, releaseEnd = releaseStart + release and
\* stop = releaseEnd + 0.2 s of the profile current at its trigger, and its
\* gain events lie on these boundaries; while it is not stolen nothing moves
\* them, its phase only advances, and it is removed only when silent.
C27_PhasesInOrder ==
    [][/\ now' >= now
       /\ \A n \in NewVoices :
            LET v == voices'[n]
                p == heap[currentProfile]
            IN  /\ v.attackEnd = v.start + (IF p.attack > 10 THEN p.attack ELSE 10)
                /\ v.releaseStart = v.attackEnd + p.decay
                /\ v.releaseEnd = v.releaseStart + p.release
                /\ v.stop = v.releaseEnd + 200
                /\ EventTimes(v.env) = <<v.start, v.attackEnd, v.releaseStart,
                                         v.releaseStart, v.releaseEnd, v.releaseEnd>>
       /\ \A i \in 1..Len(voices) :
            LET v == voices[i]
            IN  /\ v.killT = -1 =>
                     /\ v.start <= v.attackEnd /\ v.attackEnd <= v.releaseStart
                     /\ v.releaseStart <= v.releaseEnd /\ v.releaseEnd < v.stop
                     /\ v.gain = v.env
                /\ \A j \in 1..Len(voices') :
                     (voices'[j].id = v.id /\ voices'[j].killT = -1) =>
                        /\ voices'[j] = v
                        /\ PhaseRank(v, now') >= PhaseRank(v, now)
                /\ (v.killT = -1 /\ v.id \notin Connected(voices')) =>
                     (PhaseRank(v, now) = 5 /\ now >= v.stop)]_vars

\* a voice that was not stolen is in its release, with the boundaries of the
\* profile it was triggered under, after the attack of the profile was set
\* to 0
C27_Witness ==
    \E i \in 1..Len(voices) :
        /\ voices[i].killT = -1
        /\ PhaseRank(voices[i], now) = 4
        /\ voices[i].attackEnd = voices[i].start + 50
        /\ heap[currentProfile].attack = 0

----------------------------------------------------------------------------
(* Envelope durations *)

\* C28 as claimed: the attack, decay and release times a voice is scheduled
\* with are all greater than zero, whatever the profile supplies.
C28_DurationsPositive ==
    \A i \in 1..Len(voices) :
        /\ voices[i].start < voices[i].attackEnd
        /\ voices[i].attackEnd < voices[i].releaseStart
        /\ voices[i].releaseStart < voices[i].releaseEnd

\* a voice triggered after updateParam('release', 0): its attack and decay
\* have their lengths and its release has none
C28_Witness ==
    /\ heap[currentProfile].release = 0
    /\ \E i \in 1..Len(voices) :
         /\ voices[i].killT = -1
         /\ voices[i].start < voices[i].attackEnd
         /\ voices[i].attackEnd < voices[i].releaseStart
         /\ voices[i].releaseStart = voices[i].releaseEnd

----------------------------------------------------------------------------
(* The metronome tick and the error tone *)

\* a playMetronomeTick or playError call
AuxiliaryCall == TriggerCall /\ last'.op \in {"playMetronomeTick", "playError"}

\* C29 as claimed: a metronome tick or an error tone inserts no voice, steals
\* none, leaves every voice record as it was, and schedules nothing earlier
\* than 0.04 s after the clock reading.
C29_AuxiliaryBypassesVoices ==
    [][AuxiliaryCall =>
          /\ created' = created
          /\ voices' = voices
          /\ steals' = steals
          /\ \A e \in last'.sched : e[2] >= 40]_vars

\* a second playError stole the two voices the first had inserted and
\* inserted its own
C29_Witness ==
    /\ last.op = "playError"
    /\ created = 4
    /\ Len(steals) = 2
    /\ \E i \in Active : voices[i].freq = 55000
    /\ \E i \in Stolen : voices[i].freq = 59000 /\ voices[i].fade = SelfStealFade

----------------------------------------------------------------------------
(* The curve cache over time *)

\* inputs of a wave shaper, in thousandths of full scale
ShaperInputs == {-1000, -500, 0, 500, 1000}

\* a curve that hands its input on unchanged
PassThrough(c) == \A x \in ShaperInputs : Shaped(c, x) = x

\* a makeDistortionCurve call
CurveCall == Len(tally'.curveLog) = Len(tally.curveLog) + 1

----------------------------------------------------------------------------
(* One active voice per pitch *)

\* C31: in every reachable state any two voices of the active set are 1 Hz
\* or more apart, and each has a frequency of its own that is a number.
C31_ActivePitchesApart ==
    \A i, j \in ActiveVoices(voices) :
        /\ voices[i].freq # NaNFreq
        /\ i # j => (voices[i].id # voices[j].id
                     /\ ~Within1Hz(voices[i].freq, voices[j].freq))

\* the harmonizer voice of a second key came within 1 Hz of the first key's
\* voice and stole it: three voices are active, pairwise 1 Hz or more apart,
\* and the stolen one is still fading
C31_Witness ==
    /\ Cardinality(ActiveVoices(voices)) >= 3
    /\ \E i \in 1..Len(voices), j \in ActiveVoices(voices) :
         /\ ~voices[i].inSet
         /\ voices[i].killedBy = voices[j].id
         /\ voices[i].freq # voices[j].freq
         /\ Within1Hz(voices[i].freq, voices[j].freq)
         /\ voices[j].vel = 4

----------------------------------------------------------------------------
(* Keys without the harmonizer *)

\* the pitches playKey can produce: 12 semitones in each of 2 octaves
KeyPitches == {SemitoneFreq[n] : n \in 1..(12 * 2)}

----------------------------------------------------------------------------
(* A failed trigger and the voices it stole *)

\* C33 as claimed: a trigger call that throws took no voice out of the
\* active set on behalf of a voice that was never inserted: every voice that
\* left the set during the call was stolen by a voice the call inserted.
C33_FailedTriggerStealsNothing ==
    [][(TriggerCall /\ last'.threw) =>
          \A i \in ActiveVoices(voices) :
              voices'[i].inSet \/ voices'[i].killedBy > created]_vars

\* a key of the pitch of an active voice whose node creation threw: the old
\* voice is in its 0.04 s fade, and no voice of its pitch is active
C33_Witness ==
    /\ last.op = "playKey"
    /\ last.threw
    /\ last.arg # EmptyChar
    /\ \E i \in 1..Len(voices) :
         /\ ~voices[i].inSet
         /\ voices[i].killedBy = 0
         /\ voices[i].fade = SelfStealFade
         /\ voices[i].killT = last.clk + SafetyMargin
         /\ \A j \in ActiveVoices(voices) : ~Within1Hz(voices[i].freq, voices[j].freq)

----------------------------------------------------------------------------
(* The ended event of one voice *)

\* C34: an ended event takes the node group of one voice, whose stop time
\* has come, out of the graph and out of the active set; every other voice
\* keeps its place in the set, its nodes and everything scheduled on them,
\* a voice of the same pitch included.
C34_EndedTakesOnlyItsVoice ==
    [][tally'.ended = tally.ended + 1 =>
          \E i \in 1..Len(voices) :
              /\ now >= voices[i].stop
              /\ Len(voices') = Len(voices) - 1
              /\ \A j \in 1..Len(voices) :
                    j # i => /\ voices[j].id # voices[i].id
                             /\ \E k \in 1..Len(voices') : voices'[k] = voices[j]
              /\ \A k \in 1..Len(voices') : voices'[k].id # voices[i].id]_vars

\* the first voice was stolen by the second key of its pitch and its ended
\* event has fired; the second voice is active and has not reached its stop
C34_Witness ==
    /\ tally.ended >= 1
    /\ steals = <<[id |-> 1, fade |-> SelfStealFade]>>
    /\ created = 2
    /\ last.op = "playKey" /\ ~last.threw /\ last.idBefore = 1
    /\ \E j \in ActiveVoices(voices) : voices[j].id = 2 /\ now < voices[j].stop
    /\ \A k \in 1..Len(voices) : voices[k].id # 1

----------------------------------------------------------------------------
(* Whose profile object updateParam writes *)

\* C35 as claimed: updateParam changes the engine's profile and leaves the
\* object a caller handed to setProfile with the values it had at that call.
C35_CallerObjectKept ==
    [][(last'.op = "updateParam" /\ tally'.params = tally.params + 1) =>
          /\ heap'[CallerObj] = heap[CallerObj]
          /\ currentProfile' = currentProfile]_vars

\* after setProfile(p) and an updateParam the caller's object p has lost the
\* value it was handed over with, and a voice was triggered from it since
C35_Witness ==
    /\ currentProfile = CallerObj
    /\ heap[CallerObj] # CallerProfile
    /\ heap[CallerObj].release = 0
    /\ heap[EngineObj] = DefaultProfile
    /\ \E i \in ActiveVoices(voices) : voices[i].releaseEnd = voices[i].releaseStart

----------------------------------------------------------------------------
(* Recording sessions *)

\* the number of chunks recorder s has emitted
EmittedBy(s) == Len(SelectSeq(tally.emitted, LAMBDA o : o = s))

\* every chunk of a resolved blob was emitted by the recorder the call stopped
OwnChunksOnly ==
    \A k \in 1..Len(tally.blobs) :
        \A j \in 1..Len(tally.blobs[k].owners) :
            tally.blobs[k].owners[j] = tally.blobs[k].session

\* C36 as claimed: the blob a stopRecording call resolves with holds the
\* chunks emitted by the recorder of the session being stopped, all of them
\* and no chunk of another session, once the stop events of that recorder
\* have been served; this for a call made while the recorder is recording or
\* while its stop is under way.
C36_BlobOfItsSession ==
    /\ OwnChunksOnly
    /\ \A k \in 1..Len(tally.blobs) :
         LET b == tally.blobs[k]
         IN  (b.during # "inactive" /\ ~StopQueued(recorder, b.session)) =>
                Len(b.owners) = EmittedBy(b.session)

\* stopRecording was called twice on one recording: the second call resolved
\* at once with an empty blob, then the recorder's stop events delivered its
\* chunk to the first call
C36_Witness ==
    /\ recorder.queue = << >>
    /\ Len(tally.blobs) = 2
    /\ tally.blobs[1] = Blob(1, "stopping", << >>)
    /\ tally.blobs[2] = Blob(1, "recording", <<1>>)
    /\ tally.emitted = <<1>>

====
